---- MODULE Spec2Model ----
(***************************************************************************)
(* Faculty desk unit firmware (ESP32): the BLE presence detector with its  *)
(* grace period, and the offline delivery queue behind publishWithQueue.   *)
(*                                                                         *)
(* Write-only fields of the firmware (lastDetectionTime, lastStateChange,  *)
(* SimpleMessage.timestamp) are never read by any code path and are left   *)
(* out; so is systemOnline, which updateOfflineQueue() recomputes at each  *)
(* call and reads only to word a debug line.  Payload text is modelled by  *)
(* a record of the fields the firmware puts in it plus its length in       *)
(* bytes; `id` numbers the publishWithQueue calls, so that queued copies   *)
(* of equal text remain distinguishable.                                   *)
(***************************************************************************)
EXTENDS Integers, Sequences, FiniteSets, TLC

\* ------------------------------------------------------------------------
\* Program constants
\* ------------------------------------------------------------------------
BLE_GRACE_PERIOD_MS == 60000
BLE_RECONNECT_MAX_ATTEMPTS == 12
BLE_SIGNAL_STRENGTH_THRESHOLD == 0 - 80
CONFIRM_SCANS == 2
CONFIRM_ABSENCE_SCANS == 3
QUEUE_SIZE == 10
MAX_RETRY == 3
MQTT_MAX_PACKET_SIZE == 1024
PAYLOAD_MARGIN == 50
PAYLOAD_BUF == 512
DRAIN_PER_CYCLE == 3
BLE_SCAN_INTERVAL_SEARCHING == 2000
BLE_SCAN_INTERVAL_MONITORING == 8000
BLE_SCAN_INTERVAL_VERIFICATION == 1000
BLE_RECONNECT_ATTEMPT_INTERVAL == 5000
PRESENCE_CONFIRM_TIME == 6000
SCAN_SWITCH_COUNT == 2
BLE_LOOP_GATE == 8000
SLOW_LOOP_GATE == 200
MAX_CONSULTATION_QUEUE_SIZE == 10
maxMqttRetries == 10
MQTT_RECONNECT_BASE == 5000
MQTT_RECONNECT_CAP == 60000
maxWifiRetries == 10
WIFI_RECONNECT_BASE == 5000
WIFI_BACKOFF_CAP_FACTOR == 16
WIFI_CONNECT_TIMEOUT == 20000
WIFI_STABLE_MS == 30000
INT_MAX == 2147483647
INT_MIN == (0 - 2147483647) - 1
RELIABLE_QUEUE_SIZE == 3
RELIABLE_MAX_ATTEMPTS == 3
RELIABLE_DIRECT_ATTEMPTS == 2

\* ------------------------------------------------------------------------
\* Bounds of the model
\* ------------------------------------------------------------------------
MaxNow == 200000      \* millis() is explored up to this uptime
MaxCount == 16        \* cap of the detector's consecutive hit/miss counters
MaxChanges == 5       \* status changes the detector publishes
MaxMsgs == 11         \* payloads submitted before the broker is first reached
MaxOnline == 3        \* payloads submitted after the broker was first reached
MaxPings == 1         \* inbound PING_REQUESTs dispatched inside one handler
MaxLoopNow == 60000   \* uptime explored by the main-loop specifications
MaxUnitNow == 20000   \* uptime explored when update() is called on its own
MaxUnitScans == 6     \* BLE scans made when update() is called on its own
MaxEdgeNow == 60000   \* uptime at which time last advances in the status-edge specification
MaxEdgeIds == 6       \* payloads submitted before the last scan of the status-edge specification
MaxCadenceNow == 60000 \* uptime explored tick by tick in the scan-cadence specification
MaxDeliveryNow == 10000 \* uptime at which time last advances in the delivery specification
MaxDeliveryIds == 5    \* payloads submitted before the last scan of the delivery specification
MaxReliableIds == 5    \* button responses submitted in the specification of the FIXED variant
MaxBackoffNow == 90000 \* uptime up to which checkWiFiConnection() passes follow each other closely
MaxBackoffUptime == 2000000000 \* uptime up to which the expiry of the WiFi backoff is awaited
MaxScans == 6         \* BLE scans made by the main-loop specifications
MaxTickNow == 18000   \* uptime explored pass by pass
MaxTickIds == 5       \* payloads submitted in the pass-by-pass specification
MaxConsult == 1       \* consultation requests held, the displayed one included
MaxArrivals == 1       \* consultation requests accepted in the button specifications
MaxWaiting == 3        \* requests held in the consultation specification
MaxRequests == 3       \* requests accepted in the consultation specification
MaxReconnNow == 520000 \* uptime explored by the reconnect specification

TimeSteps == {10000, 60000}
RssiInactive == {0, 0 - 60}
RssiWeak == {0 - 90}
PayloadLens == {200, 975}
LongPayloadLens == {200, 600}
LoopSteps == {9000, 18000}
UnitSteps == {1000, 5000}
CadenceSteps == {3000, 5000}
TickSteps == {4000, 5000}
ReconnectSteps == {10000, 60000}
BackoffSteps == {6000, 31000}
ConsultationIds == {"", "c1"}
Contents == {"", "text"}
RequestIds == {"c1", "c2", "c3"}

Min(a, b) == IF a < b THEN a ELSE b

VARIABLES
  \* BooleanPresenceDetector
  currentPresence, lastKnownPresence, inGracePeriod, gracePeriodAttempts,
  gracePeriodStartTime, consecutiveDetections, consecutiveMisses,
  \* millis()
  now,
  \* offline queue and connection flags
  messageQueue, wifiConnected, mqttConnected,
  \* PubSubClient: connected() && state() == 0
  mqttReally,
  \* observation of the last step: the call made, when it was one of
  \* checkBeacon, publishWithQueue or updateOfflineQueue; its return value,
  \* the mqttClient.publish calls made, the status-change side effects
  \* fired, what happened to the grace period
  lastCall, lastResult, pubLog, fired, graceEvent,
  \* submission counter (identity of payloads); whether the broker was ever
  \* reached, and how many payloads had been submitted before that
  nextId, everConnected, offlineIds,
  \* history: the run of misses since a hit last left the detector confirmed
  \* present, and the number of consecutive hits (counted up to CONFIRM_SCANS)
  anchored, runMisses, runPubs, runFlips, runGraceAt, hitRun,
  \* AdaptiveBLEScanner (its own consecutiveDetections / consecutiveMisses
  \* are scannerDetections / scannerMisses here)
  currentMode, scannerDetections, scannerMisses, lastScanTime, modeChangeTime,
  \* loop(): static lastBLEScan, static lastSlowOperations
  lastBLEScan, lastSlowOperations,
  \* history: the results of the scans made so far, and the mode after each
  scanLog, modeLog,
  \* the consultation on display and the ones waiting behind it
  messageDisplayed, currentMessage, g_receivedConsultationId,
  \* the ring of waiting consultations
  consultationQueue, consultationQueueHead, consultationQueueTail,
  consultationQueueSize,
  \* environment: the network has settled, mqttClient.publish succeeds
  \* whenever the client is connected
  reliable,
  \* connectMQTT(): retry bookkeeping
  mqttRetryCount, lastMqttReconnectAttempt, mqttReconnectDelay,
  \* environment: whether the broker accepted connections during the last
  \* pass of checkMQTTConnection()
  brokerAccepts,
  \* connectWiFiWithBackoff() / checkWiFiConnection(): retry bookkeeping,
  \* followed by the WiFi backoff specification; elsewhere the outcome of a
  \* reconnection is a choice of CheckWiFiConnection
  wifiRetryCount, lastWifiReconnectAttempt, wifiReconnectDelay,
  wifiConnectionStable, wifiStableTime

detVars == <<currentPresence, lastKnownPresence, inGracePeriod, gracePeriodAttempts,
             gracePeriodStartTime, consecutiveDetections, consecutiveMisses>>
runVars == <<anchored, runMisses, runPubs, runFlips, runGraceAt, hitRun>>
connVars == <<wifiConnected, mqttConnected, mqttReally>>
idVars == <<nextId, everConnected, offlineIds>>
obsVars == <<lastCall, lastResult, pubLog, fired, graceEvent>>
scanVars == <<currentMode, scannerDetections, scannerMisses, lastScanTime,
              modeChangeTime, lastBLEScan, scanLog, modeLog>>
msgVars == <<messageDisplayed, currentMessage, g_receivedConsultationId,
             consultationQueue, consultationQueueHead, consultationQueueTail,
             consultationQueueSize>>
wifiRetryVars == <<wifiRetryCount, lastWifiReconnectAttempt, wifiReconnectDelay,
                   wifiConnectionStable, wifiStableTime>>
retryVars == <<mqttRetryCount, lastMqttReconnectAttempt, mqttReconnectDelay,
               brokerAccepts, wifiRetryVars>>
deskVars == <<scanVars, lastSlowOperations, msgVars, reliable, retryVars>>
vars == <<detVars, now, messageQueue, connVars, obsVars, idVars, runVars, deskVars>>

queueCount == Len(messageQueue)

\* ------------------------------------------------------------------------
\* BooleanPresenceDetector
\* ------------------------------------------------------------------------
Det == [currentPresence |-> currentPresence,
        lastKnownPresence |-> lastKnownPresence,
        inGracePeriod |-> inGracePeriod,
        gracePeriodAttempts |-> gracePeriodAttempts,
        gracePeriodStartTime |-> gracePeriodStartTime,
        consecutiveDetections |-> consecutiveDetections,
        consecutiveMisses |-> consecutiveMisses,
        out |-> <<>>]

GetPresence(d) == IF d.inGracePeriod THEN d.lastKnownPresence ELSE d.currentPresence

GetStatusString(d) ==
  IF d.inGracePeriod
  THEN (IF d.lastKnownPresence THEN "AVAILABLE" ELSE "AWAY")
  ELSE (IF d.currentPresence THEN "AVAILABLE" ELSE "AWAY")

StatusLen == CHOOSE n \in PayloadLens : \A m \in PayloadLens : n <= m

\* the JSON body publishPresenceUpdate builds from the detector
StatusBody(d) ==
  [kind |-> "status", len |-> StatusLen, present |-> GetPresence(d),
   status |-> GetStatusString(d), grace |-> d.inGracePeriod, id |-> 0]

\* (mutant) the status message is built before the new value is stored
UpdatePresenceStatus_OldValue(d, newPresence) ==
  IF newPresence # d.currentPresence
  THEN LET d1 == [d EXCEPT !.currentPresence = newPresence,
                           !.consecutiveDetections = 0,
                           !.consecutiveMisses = 0]
       IN [d1 EXCEPT !.out = Append(@, StatusBody(d))]
  ELSE d

UpdatePresenceStatus(d, newPresence) ==
  IF newPresence # d.currentPresence
  THEN LET d1 == [d EXCEPT !.currentPresence = newPresence,
                           !.consecutiveDetections = 0,
                           !.consecutiveMisses = 0]
       IN [d1 EXCEPT !.out = Append(@, StatusBody(d1))]
  ELSE d

\* (mutant) the reconnected flag is ignored: every end of a grace period
\* confirms AWAY
EndGracePeriod_IgnoresReconnect(d, reconnected) ==
  UpdatePresenceStatus([d EXCEPT !.inGracePeriod = FALSE, !.gracePeriodAttempts = 0], FALSE)

EndGracePeriod(d, reconnected) ==
  LET d1 == [d EXCEPT !.inGracePeriod = FALSE, !.gracePeriodAttempts = 0]
  IN IF reconnected THEN d1 ELSE UpdatePresenceStatus(d1, FALSE)

\* (mutant) the pre-grace status is not remembered
StartGracePeriod_NoRemember(d, t) ==
  [d EXCEPT !.inGracePeriod = TRUE,
            !.gracePeriodStartTime = t,
            !.gracePeriodAttempts = 0]

StartGracePeriod(d, t) ==
  [d EXCEPT !.inGracePeriod = TRUE,
            !.gracePeriodStartTime = t,
            !.gracePeriodAttempts = 0,
            !.lastKnownPresence = d.currentPresence]

\* (mutant) the reconnect attempts are never used up
AttemptsExhausted_Never(d) == FALSE

\* gracePeriodAttempts >= BLE_RECONNECT_MAX_ATTEMPTS
AttemptsExhausted(d) == d.gracePeriodAttempts >= BLE_RECONNECT_MAX_ATTEMPTS

\* (mutant) the grace period is over at the first miss after its start
GraceOver_AtOnce(d, t) == TRUE

\* elapsed >= BLE_GRACE_PERIOD_MS || gracePeriodAttempts >= BLE_RECONNECT_MAX_ATTEMPTS
GraceOver(d, t) ==
  \/ t - d.gracePeriodStartTime >= BLE_GRACE_PERIOD_MS
  \/ AttemptsExhausted(d)

\* (mutant) the expiry check is missing: attempts are only counted
UpdateGracePeriod_NoExpiry(d, t) ==
  [d EXCEPT !.gracePeriodAttempts = @ + 1]

UpdateGracePeriod(d, t) ==
  LET d1 == [d EXCEPT !.gracePeriodAttempts = @ + 1]
  IN IF GraceOver(d1, t) THEN EndGracePeriod(d1, FALSE) ELSE d1

\* (mutant) a detection leaves a running grace period running
CheckBeaconHit_KeepsGrace(d, rssi, t) ==
  LET d1 == [d EXCEPT !.consecutiveDetections = @ + 1, !.consecutiveMisses = 0]
  IN IF rssi # 0 /\ rssi < BLE_SIGNAL_STRENGTH_THRESHOLD
     THEN d1
     ELSE IF d1.consecutiveDetections >= CONFIRM_SCANS /\ ~d1.currentPresence
          THEN UpdatePresenceStatus(d1, TRUE)
          ELSE d1

\* (mutant) every confirmed detection reports the status again
CheckBeaconHit_Republish(d, rssi, t) ==
  LET d1 == [d EXCEPT !.consecutiveDetections = @ + 1, !.consecutiveMisses = 0]
  IN IF rssi # 0 /\ rssi < BLE_SIGNAL_STRENGTH_THRESHOLD
     THEN d1
     ELSE LET d2 == IF d1.inGracePeriod THEN EndGracePeriod(d1, TRUE) ELSE d1
              d3 == [d2 EXCEPT !.currentPresence = TRUE]
          IN IF d2.consecutiveDetections >= CONFIRM_SCANS
             THEN [d3 EXCEPT !.out = Append(@, StatusBody(d3))]
             ELSE d2

CheckBeaconHit(d, rssi, t) ==
  LET d1 == [d EXCEPT !.consecutiveDetections = @ + 1, !.consecutiveMisses = 0]
  IN IF rssi # 0 /\ rssi < BLE_SIGNAL_STRENGTH_THRESHOLD
     THEN d1
     ELSE LET d2 == IF d1.inGracePeriod THEN EndGracePeriod(d1, TRUE) ELSE d1
          IN IF d2.consecutiveDetections >= CONFIRM_SCANS /\ ~d2.currentPresence
             THEN UpdatePresenceStatus(d2, TRUE)
             ELSE d2

\* (mutant) no grace period: AWAY is confirmed at the third miss
CheckBeaconMiss_NoGrace(d, t) ==
  LET d1 == [d EXCEPT !.consecutiveMisses = @ + 1, !.consecutiveDetections = 0]
  IN IF d1.currentPresence /\ d1.consecutiveMisses >= CONFIRM_ABSENCE_SCANS
     THEN UpdatePresenceStatus(d1, FALSE)
     ELSE d1

CheckBeaconMiss(d, t) ==
  LET d1 == [d EXCEPT !.consecutiveMisses = @ + 1, !.consecutiveDetections = 0]
  IN IF d1.currentPresence /\ d1.consecutiveMisses >= CONFIRM_ABSENCE_SCANS
     THEN (IF ~d1.inGracePeriod THEN StartGracePeriod(d1, t) ELSE UpdateGracePeriod(d1, t))
     ELSE IF ~d1.currentPresence
          THEN [d1 EXCEPT !.inGracePeriod = FALSE]
          ELSE d1

CheckBeacon(d, beaconFound, rssi, t) ==
  IF beaconFound THEN CheckBeaconHit(d, rssi, t) ELSE CheckBeaconMiss(d, t)

\* ------------------------------------------------------------------------
\* Offline message queue and publishWithQueue
\*
\* The handlers run to completion; inside them mqttClient.publish may fail,
\* the library may find the connection lost, and mqttClient.loop() may
\* dispatch onMqttMessage.  Each operator below returns the SET of the
\* outcomes of one call, on a record
\*   q             messageQueue[0 .. queueCount-1]
\*   really        mqttClient.connected() && mqttClient.state() == 0
\*   mqttConnected the firmware's flag
\*   log           the mqttClient.publish calls made so far by the handler
\*   nextId        next submission number
\*   pings         PING_REQUESTs that may still arrive inside this handler
\*   limit         last submission number the bounds allow
\* ------------------------------------------------------------------------
IdLimit == IF everConnected THEN offlineIds + MaxOnline ELSE MaxMsgs

Env == [q |-> messageQueue, really |-> mqttReally, mqttConnected |-> mqttConnected,
        log |-> <<>>, nextId |-> nextId, pings |-> MaxPings, limit |-> IdLimit,
        reliable |-> reliable]

TOPIC_STATUS == "consultease/faculty/1/status"
TOPIC_LEGACY == "faculty/1/status"
TOPIC_RESPONSES == "consultease/faculty/1/responses"
TOPIC_PONG == "consultease/faculty/1/pong"

\* strncpy(messageQueue[n].payload, payload, 511); payload[511] = '\0'
StorePayload(p) == [p EXCEPT !.len = Min(p.len, PAYLOAD_BUF - 1)]

\* (mutant) a full queue is not shifted: the new message is added behind it
QueueMessage_NoEvict(q, topic, payload, isResponse) ==
  Append(q, [topic |-> topic, payload |-> StorePayload(payload),
             retry_count |-> 0, is_response |-> isResponse])

\* (mutant) a full queue gives up its newest message instead of its oldest
QueueMessage_EvictsNewest(q, topic, payload, isResponse) ==
  LET kept == IF Len(q) >= QUEUE_SIZE THEN SubSeq(q, 1, QUEUE_SIZE - 1) ELSE q
  IN Append(kept, [topic |-> topic, payload |-> StorePayload(payload),
                   retry_count |-> 0, is_response |-> isResponse])

QueueMessage(q, topic, payload, isResponse) ==
  LET kept == IF Len(q) >= QUEUE_SIZE THEN SubSeq(q, 2, QUEUE_SIZE) ELSE q
  IN Append(kept, [topic |-> topic, payload |-> StorePayload(payload),
                   retry_count |-> 0, is_response |-> isResponse])

\* the submission number of the oldest queued message (0: queue empty)
OldestId(q) ==
  IF Len(q) = 0 THEN 0
  ELSE CHOOSE n \in {q[i].payload.id : i \in 1..Len(q)} :
         \A i \in 1..Len(q) : n <= q[i].payload.id

LogEntry(src, topic, payload, isResponse, retained, ok, q) ==
  [src |-> src, topic |-> topic, payload |-> payload, isResponse |-> isResponse,
   retained |-> retained, ok |-> ok, oldest |-> OldestId(q)]

PongBody(n) == [kind |-> "pong", len |-> StatusLen, present |-> FALSE,
                status |-> "PONG_RESPONSE", grace |-> FALSE, id |-> n]

\* (mutant) the drain takes the newest queued message
QueueHead_Newest(q) == q[Len(q)]

\* messageQueue[0]
QueueHead(q) == q[1]

\* (mutant) the size check of publishWithQueue is missing
PayloadTooLarge_Never(payload) == FALSE

\* payload_length > MQTT_MAX_PACKET_SIZE - 50
PayloadTooLarge(payload) == payload.len > MQTT_MAX_PACKET_SIZE - PAYLOAD_MARGIN

RECURSIVE PublishWithQueue(_, _, _, _)
RECURSIVE OnPing(_)

\* n mqttClient.loop() calls in a row: each finds nothing inbound or
\* dispatches one message; the calls that find nothing change nothing, so
\* the outcomes are those of up to n dispatches
RECURSIVE MqttLoops(_, _)
MqttLoops(e, n) ==
  IF n = 0 THEN {e}
  ELSE {e} \cup UNION {MqttLoops(e1, n - 1) : e1 \in OnPing(e)}

\* onMqttMessage with a PING_REQUEST, answered through
\* publishWithQueue(pong, isResponse = true)
OnPing(e) ==
  IF e.pings > 0 /\ e.really /\ e.nextId <= e.limit
  THEN {o.env : o \in PublishWithQueue([e EXCEPT !.pings = @ - 1, !.nextId = @ + 1],
                                       TOPIC_PONG, PongBody(e.nextId), TRUE)}
  ELSE {}

\* one mqttClient.loop() call
MqttLoop(e) == MqttLoops(e, 1)

\* a failed mqttClient.publish: state() is still 0, or it is not and the
\* firmware clears mqttConnected
AfterFailedPublish(e) ==
  IF e.reliable THEN {}
  ELSE {e, [e EXCEPT !.really = FALSE, !.mqttConnected = FALSE]}

\* the transport is down: the message is refused instead of being queued
QueueWhenOffline_Refuses(e, topic, payload, isResponse) ==
  {[env |-> e, ret |-> FALSE]}

\* publishWithQueue(), not properly connected: return queueMessage(...)
QueueWhenOffline(e, topic, payload, isResponse) ==
  {[env |-> [e EXCEPT !.q = QueueMessage(@, topic, payload, isResponse)],
    ret |-> TRUE]}

\* every publish keeps the retained flag
UseRetained_Always(isResponse) == TRUE

\* bool useRetained = !isResponse;
UseRetained(isResponse) == ~isResponse

PublishWithQueue(e, topic, payload, isResponse) ==
  IF PayloadTooLarge(payload)
  THEN {[env |-> e, ret |-> FALSE]}
  ELSE IF e.really
  THEN LET useRetained == UseRetained(isResponse)
           sent == [e EXCEPT !.log = Append(@, LogEntry("direct", topic, payload,
                                                          isResponse, useRetained, TRUE, e.q))]
           lost == [e EXCEPT !.log = Append(@, LogEntry("direct", topic, payload,
                                                          isResponse, useRetained, FALSE, e.q))]
       IN {[env |-> e1, ret |-> TRUE] : e1 \in MqttLoops(sent, 3)}
          \cup
          {[env |-> [e1 EXCEPT !.q = QueueMessage(@, topic, payload, isResponse)],
            ret |-> TRUE] : e1 \in AfterFailedPublish(lost)}
  ELSE QueueWhenOffline(e, topic, payload, isResponse)

\* (mutant) no number of failed attempts is too many
RetriesUsedUp_Never(m) == FALSE

\* if (messageQueue[0].retry_count > 3)
RetriesUsedUp(m) == m.retry_count > MAX_RETRY

\* (mutant) a published message stays at the head of the queue
RemoveHead_Keeps(q) == q

\* for (i = 0; i < queueCount - 1; i++) messageQueue[i] = messageQueue[i + 1];
\* queueCount--;
RemoveHead(q) == Tail(q)

\* processQueuedMessages(): one attempt on messageQueue[0]
ProcessQueuedMessages(e) ==
  IF ~e.really \/ Len(e.q) = 0
  THEN {[env |-> e, ret |-> FALSE]}
  ELSE LET head == QueueHead(e.q)
           sent == [e EXCEPT !.log = Append(@, LogEntry("queue", head.topic, head.payload,
                                                          head.is_response, FALSE, TRUE, e.q))]
           lost == [e EXCEPT !.log = Append(@, LogEntry("queue", head.topic, head.payload,
                                                          head.is_response, FALSE, FALSE, e.q))]
           Bump(e1) == [e1 EXCEPT !.q[1].retry_count = @ + 1]
           Drop(e1) == IF RetriesUsedUp(e1.q[1])
                       THEN [e1 EXCEPT !.q = RemoveHead(@)]
                       ELSE e1
       IN {[env |-> [e1 EXCEPT !.q = RemoveHead(@)], ret |-> TRUE] : e1 \in MqttLoops(sent, 3)}
          \cup
          {[env |-> Drop(e1), ret |-> FALSE] : e1 \in AfterFailedPublish(Bump(lost))}

\* the for loop goes on after a failed attempt
RECURSIVE DrainCycle_NoStop(_, _)
DrainCycle_NoStop(e, n) ==
  IF n = 0 THEN {e}
  ELSE UNION {DrainCycle_NoStop(o.env, n - 1) : o \in ProcessQueuedMessages(e)}

\* the for loop of updateOfflineQueue(): up to n attempts, stop at a failure
RECURSIVE DrainCycle(_, _)
DrainCycle(e, n) ==
  IF n = 0 THEN {e}
  ELSE UNION {IF o.ret THEN DrainCycle(o.env, n - 1) ELSE {o.env}
              : o \in ProcessQueuedMessages(e)}

\* (mutant) the WiFi flag is not consulted
SystemOnline_IgnoresWiFi(e, wifi) == e.really

\* systemOnline = wifiConnected && isMqttReallyConnected();
SystemOnline(e, wifi) == wifi /\ e.really

UpdateOfflineQueue(e, wifi) ==
  LET online == SystemOnline(e, wifi)
  IN IF online /\ Len(e.q) > 0
     THEN DrainCycle(e, Min(DRAIN_PER_CYCLE, Len(e.q)))
     ELSE {e}

\* (mutant) the payload is published on the status topic only
PublishPresenceUpdate_StatusOnly(e, body) ==
  {o1.env : o1 \in PublishWithQueue([e EXCEPT !.nextId = @ + 1], TOPIC_STATUS,
                                    [body EXCEPT !.id = e.nextId], FALSE)}

\* publishPresenceUpdate(): one payload, published on the status topic and
\* on the legacy status topic
PublishPresenceUpdate(e, body) ==
  UNION {
    {o2.env : o2 \in PublishWithQueue([o1.env EXCEPT !.nextId = @ + 1], TOPIC_LEGACY,
                                      [body EXCEPT !.id = o1.env.nextId], FALSE)}
    : o1 \in PublishWithQueue([e EXCEPT !.nextId = @ + 1], TOPIC_STATUS,
                              [body EXCEPT !.id = e.nextId], FALSE)}

RECURSIVE PublishAll(_, _)
PublishAll(e, bodies) ==
  IF bodies = <<>> THEN {e}
  ELSE UNION {PublishAll(e1, Tail(bodies)) : e1 \in PublishPresenceUpdate(e, Head(bodies))}

\* ------------------------------------------------------------------------
\* Initial state: the globals as initialised, initOfflineQueue() done
\* ------------------------------------------------------------------------
NoCall == [op |-> "none", found |-> FALSE, rssi |-> 0, len |-> 0, isResponse |-> FALSE,
           shown |-> ""]

Init ==
  /\ currentPresence = FALSE
  /\ lastKnownPresence = FALSE
  /\ inGracePeriod = FALSE
  /\ gracePeriodAttempts = 0
  /\ gracePeriodStartTime = 0
  /\ consecutiveDetections = 0
  /\ consecutiveMisses = 0
  /\ now = 0
  /\ messageQueue = <<>>
  /\ wifiConnected = FALSE
  /\ mqttConnected = FALSE
  /\ mqttReally = FALSE
  /\ lastCall = NoCall
  /\ lastResult = FALSE
  /\ pubLog = <<>>
  /\ fired = 0
  /\ graceEvent = "none"
  /\ nextId = 1
  /\ everConnected = FALSE
  /\ offlineIds = 0
  /\ anchored = FALSE
  /\ runMisses = 0
  /\ runPubs = 0
  /\ runFlips = 0
  /\ runGraceAt = 0
  /\ hitRun = 0
  /\ currentMode = "SEARCHING"
  /\ scannerDetections = 0
  /\ scannerMisses = 0
  /\ lastScanTime = 0
  /\ modeChangeTime = 0
  /\ lastBLEScan = 0
  /\ lastSlowOperations = 0
  /\ scanLog = <<>>
  /\ modeLog = <<>>
  /\ messageDisplayed = FALSE
  /\ currentMessage = ""
  /\ g_receivedConsultationId = ""
  /\ consultationQueue = [i \in {} |-> FALSE]
  /\ consultationQueueHead = 0
  /\ consultationQueueTail = 0
  /\ consultationQueueSize = 0
  /\ reliable = FALSE
  /\ mqttRetryCount = 0
  /\ lastMqttReconnectAttempt = 0
  /\ mqttReconnectDelay = MQTT_RECONNECT_BASE
  /\ brokerAccepts = FALSE
  /\ wifiRetryCount = 0
  /\ lastWifiReconnectAttempt = 0
  /\ wifiReconnectDelay = WIFI_RECONNECT_BASE
  /\ wifiConnectionStable = FALSE
  /\ wifiStableTime = 0

SetDet(d) ==
  /\ currentPresence' = d.currentPresence
  /\ lastKnownPresence' = d.lastKnownPresence
  /\ inGracePeriod' = d.inGracePeriod
  /\ gracePeriodAttempts' = d.gracePeriodAttempts
  /\ gracePeriodStartTime' = d.gracePeriodStartTime
  /\ consecutiveDetections' = d.consecutiveDetections
  /\ consecutiveMisses' = d.consecutiveMisses

SetEnv(e) ==
  /\ messageQueue' = e.q
  /\ mqttReally' = e.really
  /\ mqttConnected' = e.mqttConnected
  /\ pubLog' = e.log
  /\ nextId' = e.nextId

\* ------------------------------------------------------------------------
\* Operations of the presence detector
\* ------------------------------------------------------------------------
\* time passes between two calls
ClockAdvance ==
  /\ \E dt \in TimeSteps : now + dt <= MaxNow /\ now' = now + dt
  /\ lastCall' = [NoCall EXCEPT !.op = "delay"]
  /\ lastResult' = FALSE /\ pubLog' = <<>> /\ fired' = 0 /\ graceEvent' = "none"
  /\ UNCHANGED <<detVars, messageQueue, connVars, idVars, runVars, deskVars>>

\* history of the run of misses that follows a hit leaving the detector
\* confirmed present
RunAfter(beaconFound, d2) ==
  IF beaconFound
  THEN /\ anchored' = (d2.currentPresence /\ ~d2.inGracePeriod)
       /\ runMisses' = 0 /\ runPubs' = 0 /\ runFlips' = 0 /\ runGraceAt' = 0
       /\ hitRun' = Min(hitRun + 1, CONFIRM_SCANS)
  ELSE IF anchored
  THEN /\ anchored' = TRUE
       /\ hitRun' = 0
       /\ runMisses' = runMisses + 1
       /\ runPubs' = runPubs + Len(d2.out)
       /\ runFlips' = runFlips + (IF GetPresence(d2) # GetPresence(Det) THEN 1 ELSE 0)
       /\ runGraceAt' = IF runMisses + 1 = CONFIRM_ABSENCE_SCANS THEN now ELSE runGraceAt
  ELSE /\ hitRun' = 0
       /\ UNCHANGED <<anchored, runMisses, runPubs, runFlips, runGraceAt>>

\* checkBeacon(beaconFound, rssi) called at millis() = now
CheckBeaconCall(beaconFound, rssi) ==
  /\ nextId + 1 <= 2 * MaxChanges
  /\ consecutiveDetections < MaxCount
  /\ consecutiveMisses < MaxCount
  /\ LET d2 == CheckBeacon(Det, beaconFound, rssi, now)
     IN /\ SetDet(d2)
        /\ fired' = Len(d2.out)
        /\ graceEvent' = IF ~inGracePeriod /\ d2.inGracePeriod THEN "started"
                         ELSE IF inGracePeriod /\ ~d2.inGracePeriod
                         THEN (IF beaconFound THEN "cancelled" ELSE "expired")
                         ELSE "none"
        /\ RunAfter(beaconFound, d2)
        /\ \E e2 \in PublishAll(Env, d2.out) : SetEnv(e2)
  /\ lastCall' = [NoCall EXCEPT !.op = "checkBeacon", !.found = beaconFound, !.rssi = rssi]
  /\ lastResult' = FALSE
  /\ UNCHANGED <<now, wifiConnected, everConnected, offlineIds, deskVars>>

ScanHit == \E rssi \in RssiInactive : CheckBeaconCall(TRUE, rssi)

ScanMiss == CheckBeaconCall(FALSE, 0)

NextPresence == ClockAdvance \/ ScanHit \/ ScanMiss

SpecPresence == Init /\ [][NextPresence]_vars

\* checkBeacon(true, rssi) with an rssi below BLE_SIGNAL_STRENGTH_THRESHOLD
WeakHit == \E rssi \in RssiWeak : CheckBeaconCall(TRUE, rssi)

\* the detector called with every kind of scan result, weak detections
\* included
NextRssi == ClockAdvance \/ ScanHit \/ ScanMiss \/ WeakHit

SpecRssi == Init /\ [][NextRssi]_vars

\* ------------------------------------------------------------------------
\* Operations on the delivery queue
\* ------------------------------------------------------------------------
\* the body of a button response (faculty_present is the constant true)
ResponseBody(len) ==
  [kind |-> "response", len |-> len, present |-> TRUE,
   status |-> "ACKNOWLEDGE", grace |-> FALSE, id |-> 0]

\* some caller runs publishWithQueue(topic, payload, isResponse)
PublishCall(topic, body, isResponse) ==
  /\ nextId <= IdLimit
  /\ \E o \in PublishWithQueue([Env EXCEPT !.nextId = @ + 1], topic,
                               [body EXCEPT !.id = nextId], isResponse) :
        /\ SetEnv([o.env EXCEPT !.nextId = IF o.ret THEN @ ELSE nextId])
        /\ lastResult' = o.ret
  /\ lastCall' = [NoCall EXCEPT !.op = "publishWithQueue", !.len = body.len,
                                !.isResponse = isResponse]
  /\ fired' = 0 /\ graceEvent' = "none"
  /\ UNCHANGED <<detVars, now, wifiConnected, everConnected, offlineIds, runVars, deskVars>>

\* a button response answers a consultation request, which only arrives
\* over an established broker connection
PublishResponse ==
  /\ everConnected
  /\ \E len \in PayloadLens : PublishCall(TOPIC_RESPONSES, ResponseBody(len), TRUE)

\* a status payload has fixed fields; only a response carries text received
\* from outside (the consultation id), so only its length varies
PublishStatus == PublishCall(TOPIC_STATUS, StatusBody(Det), FALSE)

\* loop(): updateOfflineQueue()
DrainStep ==
  /\ \E e1 \in UpdateOfflineQueue(Env, wifiConnected) : SetEnv(e1)
  /\ lastCall' = [NoCall EXCEPT !.op = "updateOfflineQueue"]
  /\ lastResult' = FALSE /\ fired' = 0 /\ graceEvent' = "none"
  /\ UNCHANGED <<detVars, now, wifiConnected, everConnected, offlineIds, runVars, deskVars>>

\* loop(): checkWiFiConnection(), with WiFi.status() == WL_CONNECTED or not,
\* and connectWiFiWithBackoff() connecting or not
CheckWiFiConnection ==
  /\ \E status \in BOOLEAN :
        IF status
        THEN wifiConnected' = TRUE /\ mqttConnected' = mqttConnected
        ELSE /\ \E reconnected \in BOOLEAN : wifiConnected' = reconnected
             /\ mqttConnected' = IF wifiConnected THEN FALSE ELSE mqttConnected
  /\ lastCall' = NoCall
  /\ lastResult' = FALSE /\ pubLog' = <<>> /\ fired' = 0 /\ graceEvent' = "none"
  /\ UNCHANGED <<detVars, now, messageQueue, mqttReally, idVars, runVars, deskVars>>

\* connectMQTT() with mqttClient.connect() succeeding: presence is published
\* and the queue is drained
ConnectMQTTSucceeds(e, wifi) ==
  UNION {UpdateOfflineQueue(e1, wifi)
         : e1 \in PublishPresenceUpdate([e EXCEPT !.really = TRUE, !.mqttConnected = TRUE],
                                        StatusBody(Det))}

\* loop(): checkMQTTConnection()
CheckMQTTConnection ==
  /\ IF ~wifiConnected
     THEN /\ mqttConnected' = FALSE
          /\ UNCHANGED <<messageQueue, mqttReally, idVars>>
          /\ pubLog' = <<>>
     ELSE IF ~mqttReally
     THEN \/ /\ mqttConnected' = FALSE
             /\ UNCHANGED <<messageQueue, mqttReally, idVars>>
             /\ pubLog' = <<>>
          \/ LET before == IF everConnected THEN offlineIds ELSE nextId - 1
             IN /\ nextId + 1 <= before + MaxOnline
                /\ everConnected' = TRUE
                /\ offlineIds' = before
                /\ \E e1 \in ConnectMQTTSucceeds([Env EXCEPT !.limit = before + MaxOnline],
                                                  wifiConnected) : SetEnv(e1)
     ELSE /\ \E e1 \in MqttLoop([Env EXCEPT !.mqttConnected = TRUE]) : SetEnv(e1)
          /\ UNCHANGED <<everConnected, offlineIds>>
  /\ lastCall' = NoCall
  /\ lastResult' = FALSE /\ fired' = 0 /\ graceEvent' = "none"
  /\ UNCHANGED <<detVars, now, wifiConnected, runVars, deskVars>>

\* the broker connection drops; PubSubClient reports it from now on
LinkLost ==
  /\ mqttReally
  /\ mqttReally' = FALSE
  /\ lastCall' = NoCall
  /\ lastResult' = FALSE /\ pubLog' = <<>> /\ fired' = 0 /\ graceEvent' = "none"
  /\ UNCHANGED <<detVars, now, messageQueue, wifiConnected, mqttConnected,
                 idVars, runVars, deskVars>>

NextQueue ==
  \/ PublishResponse
  \/ PublishStatus
  \/ DrainStep
  \/ CheckWiFiConnection
  \/ CheckMQTTConnection
  \/ LinkLost

SpecQueue == Init /\ [][NextQueue]_vars

\* button responses on a device whose only other publishing is the
\* presence update of connectMQTT()
NextResponses ==
  \/ PublishResponse
  \/ DrainStep
  \/ CheckWiFiConnection
  \/ CheckMQTTConnection
  \/ LinkLost

SpecResponses == Init /\ [][NextResponses]_vars

\* the detector publishes its status changes on an unsettled network while
\* the connections come and go and the queue, when it holds something and
\* the broker is connected, is drained
NextDelivery ==
  \/ inGracePeriod /\ now < MaxDeliveryNow /\ ClockAdvance
  \/ nextId <= MaxDeliveryIds /\ consecutiveDetections < CONFIRM_SCANS /\ ScanHit
  \/ nextId <= MaxDeliveryIds /\ consecutiveMisses <= CONFIRM_ABSENCE_SCANS /\ ScanMiss
  \/ queueCount > 0 /\ mqttReally /\ DrainStep
  \/ ~wifiConnected /\ CheckWiFiConnection
  \/ ~mqttReally /\ CheckMQTTConnection
  \/ LinkLost

SpecDelivery == Init /\ [][NextDelivery]_vars

\* a button response whose consultation id makes the payload longer than
\* the payload buffer of a queue slot, yet within the size limit
PublishLongResponse ==
  /\ everConnected
  /\ \E len \in LongPayloadLens : PublishCall(TOPIC_RESPONSES, ResponseBody(len), TRUE)

\* button responses of every accepted length
NextLongPayload ==
  \/ PublishLongResponse
  \/ DrainStep
  \/ CheckWiFiConnection
  \/ CheckMQTTConnection
  \/ LinkLost

SpecLongPayload == Init /\ [][NextLongPayload]_vars

\* status messages only, on a WiFi link that stays up once it is up; the
\* broker connection still comes and goes
NextStatusQueue ==
  \/ PublishStatus
  \/ DrainStep
  \/ ~wifiConnected /\ CheckWiFiConnection
  \/ CheckMQTTConnection
  \/ LinkLost

SpecStatusQueue == Init /\ [][NextStatusQueue]_vars

\* ------------------------------------------------------------------------
\* AdaptiveBLEScanner and the BLE section of loop()
\* ------------------------------------------------------------------------
Scan == [currentMode |-> currentMode,
         consecutiveDetections |-> scannerDetections,
         consecutiveMisses |-> scannerMisses,
         lastScanTime |-> lastScanTime,
         modeChangeTime |-> modeChangeTime]

SetScan(sc) ==
  /\ currentMode' = sc.currentMode
  /\ scannerDetections' = sc.consecutiveDetections
  /\ scannerMisses' = sc.consecutiveMisses
  /\ lastScanTime' = sc.lastScanTime
  /\ modeChangeTime' = sc.modeChangeTime

GetCurrentScanInterval(sc, d) ==
  IF d.inGracePeriod THEN BLE_RECONNECT_ATTEMPT_INTERVAL
  ELSE CASE sc.currentMode = "SEARCHING" -> BLE_SCAN_INTERVAL_SEARCHING
         [] sc.currentMode = "MONITORING" -> BLE_SCAN_INTERVAL_MONITORING
         [] sc.currentMode = "VERIFYING" -> BLE_SCAN_INTERVAL_VERIFICATION
         [] OTHER -> BLE_SCAN_INTERVAL_SEARCHING

\* (mutant) the verification always ends in MONITORING
VerifyingOutcome_AlwaysMonitoring(sc) == "MONITORING"

\* if (consecutiveDetections > consecutiveMisses) ... else ...
VerifyingOutcome(sc) ==
  IF sc.consecutiveDetections > sc.consecutiveMisses THEN "MONITORING" ELSE "SEARCHING"

\* (mutant) a single detection ends the search
NewMode_OneHit(sc, t) ==
  CASE sc.currentMode = "SEARCHING" ->
         IF sc.consecutiveDetections >= 1 THEN "VERIFYING" ELSE sc.currentMode
    [] sc.currentMode = "MONITORING" ->
         IF sc.consecutiveMisses >= SCAN_SWITCH_COUNT THEN "VERIFYING"
         ELSE sc.currentMode
    [] sc.currentMode = "VERIFYING" ->
         IF t - sc.modeChangeTime > PRESENCE_CONFIRM_TIME
         THEN VerifyingOutcome(sc)
         ELSE sc.currentMode
    [] OTHER -> sc.currentMode

\* the mode a scan in the given mode moves to
NewMode(sc, t) ==
  CASE sc.currentMode = "SEARCHING" ->
         IF sc.consecutiveDetections >= SCAN_SWITCH_COUNT THEN "VERIFYING"
         ELSE sc.currentMode
    [] sc.currentMode = "MONITORING" ->
         IF sc.consecutiveMisses >= SCAN_SWITCH_COUNT THEN "VERIFYING"
         ELSE sc.currentMode
    [] sc.currentMode = "VERIFYING" ->
         IF t - sc.modeChangeTime > PRESENCE_CONFIRM_TIME
         THEN VerifyingOutcome(sc)
         ELSE sc.currentMode
    [] OTHER -> sc.currentMode

\* consistent detections end the search in MONITORING at once
UpdateScanMode_SkipsVerifying(sc, beaconFound, t) ==
  LET newMode == IF sc.currentMode = "SEARCHING"
                    /\ sc.consecutiveDetections >= SCAN_SWITCH_COUNT
                 THEN "MONITORING" ELSE NewMode(sc, t)
  IN IF newMode # sc.currentMode
     THEN [sc EXCEPT !.currentMode = newMode, !.modeChangeTime = t,
                     !.consecutiveDetections = 0, !.consecutiveMisses = 0]
     ELSE sc

UpdateScanMode(sc, beaconFound, t) ==
  LET newMode == NewMode(sc, t)
  IN IF newMode # sc.currentMode
     THEN [sc EXCEPT !.currentMode = newMode, !.modeChangeTime = t,
                     !.consecutiveDetections = 0, !.consecutiveMisses = 0]
     ELSE sc

\* AdaptiveBLEScanner::update() at millis() = t, performScan() returning
\* beaconFound; checkBeacon is called with the default rssi 0
ScannerUpdate(sc, d, beaconFound, t) ==
  IF t - sc.lastScanTime < GetCurrentScanInterval(sc, d)
  THEN [sc |-> sc, det |-> d, scanned |-> FALSE]
  ELSE LET counted == IF beaconFound
                      THEN [sc EXCEPT !.lastScanTime = t,
                                      !.consecutiveDetections = @ + 1,
                                      !.consecutiveMisses = 0]
                      ELSE [sc EXCEPT !.lastScanTime = t,
                                      !.consecutiveMisses = @ + 1,
                                      !.consecutiveDetections = 0]
       IN [sc |-> UpdateScanMode(counted, beaconFound, t),
           det |-> CheckBeacon(d, beaconFound, 0, t),
           scanned |-> TRUE]

\* what a checkBeacon call did to the grace period
GraceEvent(d, d2, beaconFound) ==
  IF ~d.inGracePeriod /\ d2.inGracePeriod THEN "started"
  ELSE IF d.inGracePeriod /\ ~d2.inGracePeriod
  THEN (IF beaconFound THEN "cancelled" ELSE "expired")
  ELSE "none"

\* time passes between two passes of loop(); every pass runs the BLE
\* section, so no further time passes once its gate is open
LoopDelay ==
  /\ now - lastBLEScan <= BLE_LOOP_GATE
  /\ \E dt \in LoopSteps : now + dt <= MaxLoopNow /\ now' = now + dt
  /\ lastCall' = [NoCall EXCEPT !.op = "delay"]
  /\ lastResult' = FALSE /\ pubLog' = <<>> /\ fired' = 0 /\ graceEvent' = "none"
  /\ UNCHANGED <<detVars, messageQueue, connVars, idVars, runVars, deskVars>>

\* loop(): the BLE section, when its gate lets adaptiveScanner.update() run
BleScan ==
  /\ now - lastBLEScan > BLE_LOOP_GATE
  /\ Len(scanLog) < MaxScans
  /\ \E beaconFound \in BOOLEAN :
        LET r == ScannerUpdate(Scan, Det, beaconFound, now)
        IN /\ SetScan(r.sc)
           /\ SetDet(r.det)
           /\ scanLog' = IF r.scanned THEN Append(scanLog, beaconFound) ELSE scanLog
           /\ modeLog' = IF r.scanned THEN Append(modeLog, r.sc.currentMode) ELSE modeLog
           /\ fired' = Len(r.det.out)
           /\ graceEvent' = GraceEvent(Det, r.det, beaconFound)
           /\ \E e2 \in PublishAll(Env, r.det.out) : SetEnv(e2)
           /\ lastCall' = [NoCall EXCEPT !.op = "update", !.found = beaconFound]
  /\ lastBLEScan' = now
  /\ lastResult' = FALSE
  /\ UNCHANGED <<now, wifiConnected, everConnected, offlineIds, runVars,
                 lastSlowOperations, msgVars, reliable, retryVars>>

NextScanner == LoopDelay \/ BleScan

SpecScanner == Init /\ [][NextScanner]_vars

\* AdaptiveBLEScanner::update() on its own: called dt after the previous
\* call, it scans when its own interval check lets it
ScannerTick ==
  /\ Len(scanLog) < MaxUnitScans
  /\ \E dt \in UnitSteps, beaconFound \in BOOLEAN :
        LET t == now + dt
            r == ScannerUpdate(Scan, Det, beaconFound, t)
        IN /\ t <= MaxUnitNow
           /\ now' = t
           /\ SetScan(r.sc)
           /\ SetDet(r.det)
           /\ scanLog' = IF r.scanned THEN Append(scanLog, beaconFound) ELSE scanLog
           /\ modeLog' = IF r.scanned THEN Append(modeLog, r.sc.currentMode) ELSE modeLog
           /\ fired' = Len(r.det.out)
           /\ graceEvent' = GraceEvent(Det, r.det, beaconFound)
           /\ \E e2 \in PublishAll(Env, r.det.out) : SetEnv(e2)
           /\ lastCall' = [NoCall EXCEPT !.op = IF r.scanned THEN "update" ELSE "delay",
                                         !.found = r.scanned /\ beaconFound]
  /\ lastResult' = FALSE
  /\ UNCHANGED <<lastBLEScan, wifiConnected, everConnected, offlineIds, runVars,
                 lastSlowOperations, msgVars, reliable, retryVars>>

\* one pass of loop(), dt after the previous one: the BLE section, which
\* calls adaptiveScanner.update() when its own gate is open
BleTick ==
  /\ \E dt \in CadenceSteps, beaconFound \in BOOLEAN :
        LET t == now + dt
            bleDue == t - lastBLEScan > BLE_LOOP_GATE
            r == IF bleDue THEN ScannerUpdate(Scan, Det, beaconFound, t)
                 ELSE [sc |-> Scan, det |-> Det, scanned |-> FALSE]
        IN /\ t <= MaxCadenceNow
           /\ now' = t
           /\ SetScan(r.sc)
           /\ SetDet(r.det)
           /\ scanLog' = IF r.scanned THEN Append(scanLog, beaconFound) ELSE scanLog
           /\ modeLog' = IF r.scanned THEN Append(modeLog, r.sc.currentMode) ELSE modeLog
           /\ fired' = Len(r.det.out)
           /\ graceEvent' = GraceEvent(Det, r.det, beaconFound)
           /\ \E e2 \in PublishAll(Env, r.det.out) : SetEnv(e2)
           /\ lastBLEScan' = IF bleDue THEN t ELSE lastBLEScan
           /\ lastCall' = [NoCall EXCEPT !.op = "tick", !.found = r.scanned /\ beaconFound]
  /\ lastResult' = FALSE
  /\ UNCHANGED <<wifiConnected, everConnected, offlineIds, runVars,
                 lastSlowOperations, msgVars, reliable, retryVars>>

NextCadence == BleTick

SpecCadence == Init /\ [][NextCadence]_vars

NextScannerUnit == ScannerTick

SpecScannerUnit == Init /\ [][NextScannerUnit]_vars

\* ------------------------------------------------------------------------
\* Consultation requests on display and the response buttons
\* ------------------------------------------------------------------------
\* initConsultationQueue(): every slot cleared
EmptySlot == [isValid |-> FALSE, content |-> "", consultationId |-> ""]

Slots == 0..(MAX_CONSULTATION_QUEUE_SIZE - 1)

\* consultationQueue[i]: the array is held as a function on the slots
\* written since initConsultationQueue(), which left every slot empty
SlotAt(q, i) == IF i \in DOMAIN q THEN q[i] ELSE EmptySlot

\* consultationQueue[i] = slot
WriteSlot(q, i, slot) == [j \in DOMAIN q \cup {i} |-> IF j = i THEN slot ELSE q[j]]

Msg == [messageDisplayed |-> messageDisplayed,
        currentMessage |-> currentMessage,
        g_receivedConsultationId |-> g_receivedConsultationId,
        consultationQueue |-> consultationQueue,
        head |-> consultationQueueHead,
        tail |-> consultationQueueTail,
        size |-> consultationQueueSize]

SetMsg(m) ==
  /\ messageDisplayed' = m.messageDisplayed
  /\ currentMessage' = m.currentMessage
  /\ g_receivedConsultationId' = m.g_receivedConsultationId
  /\ consultationQueue' = m.consultationQueue
  /\ consultationQueueHead' = m.head
  /\ consultationQueueTail' = m.tail
  /\ consultationQueueSize' = m.size

\* getNextConsultationFromQueue(), for a non-empty queue: the queue after
\* the head slot was taken
AfterGetNext(m) ==
  [m EXCEPT !.consultationQueue =
              WriteSlot(@, m.head, [SlotAt(@, m.head) EXCEPT !.isValid = FALSE]),
            !.head = (@ + 1) % MAX_CONSULTATION_QUEUE_SIZE,
            !.size = @ - 1]

RECURSIVE ProcessNextQueuedConsultation(_)
\* processNextQueuedConsultation(): show the request in the head slot; a
\* slot that is not valid is taken and the next one tried
ProcessNextQueuedConsultation(m) ==
  IF m.size = 0
  THEN [m EXCEPT !.messageDisplayed = FALSE, !.g_receivedConsultationId = ""]
  ELSE LET msg == SlotAt(m.consultationQueue, m.head)
       IN IF msg.isValid
          THEN [AfterGetNext(m) EXCEPT !.currentMessage = msg.content,
                                       !.g_receivedConsultationId = msg.consultationId,
                                       !.messageDisplayed = TRUE]
          ELSE ProcessNextQueuedConsultation(AfterGetNext(m))

ClearCurrentMessage(m) ==
  ProcessNextQueuedConsultation([m EXCEPT !.currentMessage = "",
                                          !.messageDisplayed = FALSE,
                                          !.g_receivedConsultationId = ""])

AddConsultationToQueue(m, content, consultationId) ==
  LET room == IF m.size >= MAX_CONSULTATION_QUEUE_SIZE
              THEN [m EXCEPT !.head = (@ + 1) % MAX_CONSULTATION_QUEUE_SIZE,
                             !.size = @ - 1]
              ELSE m
  IN [room EXCEPT !.consultationQueue =
                     WriteSlot(@, room.tail, [isValid |-> TRUE, content |-> content,
                                              consultationId |-> consultationId]),
                  !.tail = (@ + 1) % MAX_CONSULTATION_QUEUE_SIZE,
                  !.size = @ + 1]

\* onMqttMessage(): a new consultation request
OnConsultation(m, content, consultationId) ==
  LET isDuplicate ==
        \/ m.messageDisplayed /\ m.g_receivedConsultationId = consultationId
        \/ \E i \in Slots :
              /\ SlotAt(m.consultationQueue, i).isValid
              /\ SlotAt(m.consultationQueue, i).consultationId = consultationId
      added == AddConsultationToQueue(m, content, consultationId)
  IN IF isDuplicate THEN m
     ELSE IF ~m.messageDisplayed THEN ProcessNextQueuedConsultation(added)
     ELSE added

\* handleConsultationCancellation()
HandleConsultationCancellation(m, consultationIdToCancel) ==
  LET m1 == IF m.messageDisplayed /\ m.g_receivedConsultationId = consultationIdToCancel
            THEN ClearCurrentMessage(m) ELSE m
      marked == [i \in DOMAIN m1.consultationQueue |->
                   IF /\ m1.consultationQueue[i].isValid
                      /\ m1.consultationQueue[i].consultationId = consultationIdToCancel
                   THEN [m1.consultationQueue[i] EXCEPT !.isValid = FALSE]
                   ELSE m1.consultationQueue[i]]
      validCount == Cardinality({i \in DOMAIN marked : marked[i].isValid})
  IN [m1 EXCEPT !.consultationQueue = marked, !.size = validCount]

\* the presence check is skipped
FacultyPresent_Always(d) == TRUE

\* bool facultyPresent = presenceDetector.getPresence();
FacultyPresent(d) == GetPresence(d)

\* the text of the sent confirmation of each handler
SentText(responseType) ==
  IF responseType = "ACKNOWLEDGE" THEN "ACKNOWLEDGED" ELSE "MARKED BUSY"

\* if (success) { if (mqttClient.connected()) ... else ... } else ...
ConfirmText(success, connected, responseType) ==
  IF success
  THEN (IF connected THEN SentText(responseType) ELSE "QUEUED")
  ELSE "FAILED"

\* handleAcknowledgeButton() / handleBusyButton(): the set of outcomes
\* [env, msg, handed, ret, shown]; handed tells whether publishWithQueue was
\* called, shown is the text given to showResponseConfirmation ("" if none)
HandleResponseButton(e, d, m, responseType, len) ==
  IF ~m.messageDisplayed \/ m.currentMessage = ""
  THEN {[env |-> e, msg |-> m, handed |-> FALSE, ret |-> FALSE, shown |-> ""]}
  ELSE IF ~FacultyPresent(d)
  THEN {[env |-> e, msg |-> m, handed |-> FALSE, ret |-> FALSE,
         shown |-> "NOT PRESENT!"]}
  ELSE IF m.g_receivedConsultationId = ""
  THEN {[env |-> e, msg |-> m, handed |-> FALSE, ret |-> FALSE, shown |-> "NO CID!"]}
  ELSE {[env |-> [o.env EXCEPT !.nextId = IF o.ret THEN @ ELSE e.nextId],
         msg |-> ClearCurrentMessage(m), handed |-> TRUE, ret |-> o.ret,
         shown |-> ConfirmText(o.ret, o.env.really, responseType)]
        : o \in PublishWithQueue([e EXCEPT !.nextId = @ + 1], TOPIC_RESPONSES,
                                  [ResponseBody(len) EXCEPT !.status = responseType,
                                                            !.id = e.nextId],
                                  TRUE)}

\* the network settles: from now on no mqttClient.publish fails
NetworkSettles ==
  /\ ~reliable
  /\ reliable' = TRUE
  /\ lastCall' = NoCall
  /\ lastResult' = FALSE /\ pubLog' = <<>> /\ fired' = 0 /\ graceEvent' = "none"
  /\ UNCHANGED <<detVars, now, messageQueue, connVars, idVars, runVars,
                 scanVars, lastSlowOperations, msgVars, retryVars>>

\* mqttClient.loop() delivers a consultation request to onMqttMessage
RequestArrives(contents, ids, maxHeld, maxArrivals) ==
  /\ mqttReally
  /\ consultationQueueSize + (IF messageDisplayed THEN 1 ELSE 0) < maxHeld
  /\ consultationQueueTail < maxArrivals
  /\ \E content \in contents, consultationId \in ids :
        SetMsg(OnConsultation(Msg, content, consultationId))
  /\ lastCall' = [NoCall EXCEPT !.op = "onMqttMessage"]
  /\ lastResult' = FALSE /\ pubLog' = <<>> /\ fired' = 0 /\ graceEvent' = "none"
  /\ UNCHANGED <<detVars, now, messageQueue, connVars, idVars, runVars,
                 scanVars, lastSlowOperations, reliable, retryVars>>

ConsultationArrives == RequestArrives(Contents, ConsultationIds, MaxConsult, MaxArrivals)

\* loop(): a button press is seen and its handler runs
ButtonPress(handler, responseType) ==
  /\ nextId <= IdLimit
  /\ \E len \in PayloadLens :
        \E o \in HandleResponseButton(Env, Det, Msg, responseType, len) :
           /\ SetEnv(o.env)
           /\ SetMsg(o.msg)
           /\ lastResult' = o.ret
           /\ lastCall' = [NoCall EXCEPT !.op = handler, !.len = len,
                                         !.isResponse = o.handed,
                                         !.shown = o.shown]
  /\ fired' = 0 /\ graceEvent' = "none"
  /\ UNCHANGED <<detVars, now, wifiConnected, everConnected, offlineIds, runVars,
                 scanVars, lastSlowOperations, reliable, retryVars>>

AcknowledgeButton == ButtonPress("handleAcknowledgeButton", "ACKNOWLEDGE")

BusyButton == ButtonPress("handleBusyButton", "BUSY")

\* the buttons on a settled network: publishes succeed while the broker
\* connection is up, which WiFi and the broker may still lose
NextButtons ==
  \/ NetworkSettles
  \/ reliable /\ LoopDelay
  \/ reliable /\ BleScan
  \/ reliable /\ CheckWiFiConnection
  \/ reliable /\ CheckMQTTConnection
  \/ reliable /\ LinkLost
  \/ reliable /\ ConsultationArrives
  \/ reliable /\ AcknowledgeButton
  \/ reliable /\ BusyButton

SpecButtons == Init /\ [][NextButtons]_vars

\* the presence detector called while the connections come and go, on a
\* network that loses no publish
NextEdges ==
  \/ NetworkSettles
  \/ reliable /\ inGracePeriod /\ now < MaxEdgeNow /\ ClockAdvance
  \/ reliable /\ nextId <= MaxEdgeIds /\ consecutiveDetections <= CONFIRM_SCANS /\ ScanHit
  \/ reliable /\ nextId <= MaxEdgeIds /\ consecutiveMisses <= CONFIRM_ABSENCE_SCANS /\ ScanMiss
  \/ reliable /\ ~wifiConnected /\ CheckWiFiConnection
  \/ reliable /\ ~mqttReally /\ CheckMQTTConnection
  \/ reliable /\ LinkLost

SpecEdges == Init /\ [][NextEdges]_vars

\* the buttons on an unsettled network, where a publish may fail; the
\* beacon is seen until presence is confirmed
NextConfirm ==
  \/ ~currentPresence /\ ScanHit
  \/ CheckWiFiConnection
  \/ CheckMQTTConnection
  \/ LinkLost
  \/ ConsultationArrives
  \/ AcknowledgeButton
  \/ BusyButton

SpecConfirm == Init /\ [][NextConfirm]_vars

\* requests from several students
RequestArrivesFromMany == RequestArrives({"text"}, RequestIds, MaxWaiting, MaxRequests)

\* mqttClient.loop() delivers a CANCEL_CONSULTATION command to onMqttMessage
CancellationArrives ==
  /\ mqttReally
  /\ \E consultationIdToCancel \in RequestIds :
        SetMsg(HandleConsultationCancellation(Msg, consultationIdToCancel))
  /\ lastCall' = [NoCall EXCEPT !.op = "handleConsultationCancellation"]
  /\ lastResult' = FALSE /\ pubLog' = <<>> /\ fired' = 0 /\ graceEvent' = "none"
  /\ UNCHANGED <<detVars, now, messageQueue, connVars, idVars, runVars,
                 scanVars, lastSlowOperations, reliable, retryVars>>

\* requests, cancellations and button presses on a settled network, once
\* the faculty is present and the broker connected
NextConsult ==
  \/ NetworkSettles
  \/ reliable /\ ~currentPresence /\ ScanHit
  \/ reliable /\ ~wifiConnected /\ CheckWiFiConnection
  \/ reliable /\ ~mqttConnected /\ CheckMQTTConnection
  \/ reliable /\ RequestArrivesFromMany
  \/ reliable /\ CancellationArrives
  \/ reliable /\ AcknowledgeButton
  \/ reliable /\ BusyButton

SpecConsult == Init /\ [][NextConsult]_vars

\* ------------------------------------------------------------------------
\* loop(), pass by pass
\* ------------------------------------------------------------------------
\* checkWiFiConnection(): WiFi.status() is WL_CONNECTED, or it is not and
\* connectWiFiWithBackoff() connects or does not
CheckWiFi(e, wifi) ==
  {[env |-> e, wifi |-> TRUE]}
  \cup {[env |-> [e EXCEPT !.mqttConnected = IF wifi THEN FALSE ELSE @], wifi |-> r]
        : r \in BOOLEAN}

\* checkMQTTConnection(); connectMQTT() succeeds or fails
CheckMQTT(e, wifi) ==
  IF ~wifi THEN {[e EXCEPT !.mqttConnected = FALSE]}
  ELSE IF ~e.really
  THEN {[e EXCEPT !.mqttConnected = FALSE]} \cup ConnectMQTTSucceeds(e, wifi)
  ELSE MqttLoop([e EXCEPT !.mqttConnected = TRUE])

\* the slow section: checkWiFiConnection(); checkMQTTConnection();
\* updateOfflineQueue();
SlowSection(e, wifi) ==
  UNION {UNION {{[env |-> e3, wifi |-> o.wifi] : e3 \in UpdateOfflineQueue(e2, o.wifi)}
                : e2 \in CheckMQTT(o.env, o.wifi)}
         : o \in CheckWiFi(e, wifi)}

\* one pass of loop(), dt after the previous one, with no button pressed
\* and no inbound message waiting: mqttClient.loop(), the slow section and
\* the BLE section, each when due
LoopPass ==
  /\ nextId <= MaxTickIds
  /\ \E dt \in TickSteps, beaconFound \in BOOLEAN :
        LET t == now + dt
            e0 == [Env EXCEPT !.limit = MaxTickIds, !.pings = 0]
            slowDue == t - lastSlowOperations > SLOW_LOOP_GATE
            bleDue == t - lastBLEScan > BLE_LOOP_GATE
            r == IF bleDue THEN ScannerUpdate(Scan, Det, beaconFound, t)
                 ELSE [sc |-> Scan, det |-> Det, scanned |-> FALSE]
        IN /\ t <= MaxTickNow
           /\ now' = t
           /\ \E e1 \in (IF mqttConnected THEN MqttLoop(e0) ELSE {e0}) :
                 \E o \in (IF slowDue THEN SlowSection(e1, wifiConnected)
                           ELSE {[env |-> e1, wifi |-> wifiConnected]}) :
                    /\ wifiConnected' = o.wifi
                    /\ \E e2 \in PublishAll(o.env, r.det.out) : SetEnv(e2)
           /\ SetScan(r.sc)
           /\ SetDet(r.det)
           /\ scanLog' = IF r.scanned THEN Append(scanLog, beaconFound) ELSE scanLog
           /\ modeLog' = IF r.scanned THEN Append(modeLog, r.sc.currentMode) ELSE modeLog
           /\ fired' = Len(r.det.out)
           /\ graceEvent' = GraceEvent(Det, r.det, beaconFound)
           /\ lastSlowOperations' = IF slowDue THEN t ELSE lastSlowOperations
           /\ lastBLEScan' = IF bleDue THEN t ELSE lastBLEScan
           /\ lastCall' = [NoCall EXCEPT !.op = "loop",
                                         !.found = r.scanned /\ beaconFound]
  /\ lastResult' = FALSE
  /\ UNCHANGED <<everConnected, offlineIds, runVars, msgVars, reliable, retryVars>>

NextLoop == LoopPass

SpecLoop == Init /\ [][NextLoop]_vars

\* ------------------------------------------------------------------------
\* connectMQTT() and checkMQTTConnection() with the retry bookkeeping
\* ------------------------------------------------------------------------
\* 1 << n, for the n in 0 .. 4 that connectMQTT() uses
Pow2(n) == IF n = 0 THEN 1 ELSE IF n = 1 THEN 2 ELSE IF n = 2 THEN 4
           ELSE IF n = 3 THEN 8 ELSE 16

Retry == [count |-> mqttRetryCount, lastAttempt |-> lastMqttReconnectAttempt,
          delay |-> mqttReconnectDelay]

\* if (mqttRetryCount >= maxMqttRetries) return;
RetriesExhausted(r) == r.count >= maxMqttRetries

\* connectMQTT() gets as far as mqttClient.connect()
ConnectAttempted(r, wifi, t) ==
  /\ wifi
  /\ ~(t - r.lastAttempt < r.delay)
  /\ ~RetriesExhausted(r)

\* connectMQTT(): the bookkeeping after mqttClient.connect() returned
AfterConnect(r, t, connected) ==
  IF connected
  THEN [count |-> 0, lastAttempt |-> t, delay |-> MQTT_RECONNECT_BASE]
  ELSE [count |-> r.count + 1, lastAttempt |-> t,
        delay |-> Min(r.delay * Pow2(Min(r.count, 4)), MQTT_RECONNECT_CAP)]

\* loop(): checkMQTTConnection() at time now + dt, the broker accepting
\* connections or not
CheckMQTTPass ==
  \E dt \in ReconnectSteps, accepts \in BOOLEAN :
    LET t == now + dt
    IN /\ t <= MaxReconnNow
       /\ now' = t
       /\ brokerAccepts' = accepts
       /\ IF ~wifiConnected
          THEN /\ mqttConnected' = FALSE
               /\ pubLog' = <<>>
               /\ UNCHANGED <<messageQueue, mqttReally, nextId, mqttRetryCount,
                              lastMqttReconnectAttempt, mqttReconnectDelay>>
          ELSE IF ~mqttReally
          THEN IF ConnectAttempted(Retry, wifiConnected, t)
               THEN LET r2 == AfterConnect(Retry, t, accepts)
                    IN /\ mqttRetryCount' = r2.count
                       /\ lastMqttReconnectAttempt' = r2.lastAttempt
                       /\ mqttReconnectDelay' = r2.delay
                       /\ IF accepts
                          THEN /\ nextId + 1 <= IdLimit
                               /\ \E e1 \in ConnectMQTTSucceeds([Env EXCEPT !.pings = 0],
                                                                wifiConnected) :
                                     SetEnv(e1)
                          ELSE /\ mqttConnected' = FALSE
                               /\ pubLog' = <<>>
                               /\ UNCHANGED <<messageQueue, mqttReally, nextId>>
               ELSE /\ mqttConnected' = FALSE
                    /\ pubLog' = <<>>
                    /\ UNCHANGED <<messageQueue, mqttReally, nextId, mqttRetryCount,
                                   lastMqttReconnectAttempt, mqttReconnectDelay>>
          ELSE /\ mqttConnected' = TRUE
               /\ pubLog' = <<>>
               /\ UNCHANGED <<messageQueue, mqttReally, nextId, mqttRetryCount,
                              lastMqttReconnectAttempt, mqttReconnectDelay>>
       /\ lastCall' = [NoCall EXCEPT !.op = "checkMQTTConnection"]
       \* whether mqttClient.connect() was called and returned true
       /\ lastResult' = (wifiConnected /\ ~mqttReally /\ accepts
                          /\ ConnectAttempted(Retry, wifiConnected, t))
       /\ fired' = 0 /\ graceEvent' = "none"
       /\ UNCHANGED <<detVars, wifiConnected, everConnected, offlineIds, runVars,
                      scanVars, lastSlowOperations, msgVars, reliable, wifiRetryVars>>

NextReconnect ==
  \/ NetworkSettles
  \/ reliable /\ CheckWiFiConnection
  \/ reliable /\ CheckMQTTPass
  \/ reliable /\ LinkLost

SpecReconnect == Init /\ [][NextReconnect]_vars

\* ------------------------------------------------------------------------
\* Connectivity restored for good
\* ------------------------------------------------------------------------
\* the drain does nothing
UpdateOfflineQueueAfter_Idle(e2, wifi) == {e2}

\* loop(): ... checkMQTTConnection(); updateOfflineQueue();
UpdateOfflineQueueAfter(e2, wifi) == UpdateOfflineQueue(e2, wifi)

\* loop(): the slow section on a settled network, with WiFi.status()
\* WL_CONNECTED, connectMQTT() succeeding if the broker is not connected,
\* and no PING_REQUEST delivered
SlowSectionOnline ==
  /\ reliable
  /\ wifiConnected' = TRUE
  /\ LET e0 == [Env EXCEPT !.pings = 0]
     IN \E e2 \in (IF ~mqttReally THEN ConnectMQTTSucceeds(e0, TRUE)
                    ELSE MqttLoop([e0 EXCEPT !.mqttConnected = TRUE])) :
           \E e3 \in UpdateOfflineQueueAfter(e2, TRUE) : SetEnv(e3)
  /\ lastCall' = [NoCall EXCEPT !.op = "slowSection"]
  /\ lastResult' = FALSE /\ fired' = 0 /\ graceEvent' = "none"
  /\ UNCHANGED <<detVars, now, everConnected, offlineIds, runVars, deskVars>>

\* messages pile up on an unsettled network; then the network settles and
\* from then on only the slow section of loop() runs: WiFi and the broker
\* stay up and nothing new is submitted
NextRestored ==
  \/ ~reliable /\ PublishStatus
  \/ ~reliable /\ CheckWiFiConnection
  \/ ~reliable /\ CheckMQTTConnection
  \/ NetworkSettles
  \/ SlowSectionOnline

\* loop() is called again and again, and each pass taken 200 ms after the
\* last slow section runs it
SpecRestored == Init /\ [][NextRestored]_vars /\ WF_vars(SlowSectionOnline)

\* ------------------------------------------------------------------------
\* Properties of the presence detector
\* ------------------------------------------------------------------------
IsHit(c) == c.op = "checkBeacon" /\ c.found
IsMiss(c) == c.op = "checkBeacon" /\ ~c.found

\* C1: getPresence() changes only at a miss on which the grace period
\* expires (true -> false) and at a hit that completes at least
\* CONFIRM_SCANS consecutive hits while away (false -> true).
PresenceChangesOnlyAtEdges ==
  [][GetPresence(Det)' # GetPresence(Det) =>
       \/ /\ GetPresence(Det) /\ ~GetPresence(Det)'
          /\ IsMiss(lastCall')
          /\ inGracePeriod /\ ~inGracePeriod'
          /\ \/ now - gracePeriodStartTime >= BLE_GRACE_PERIOD_MS
             \/ gracePeriodAttempts + 1 >= BLE_RECONNECT_MAX_ATTEMPTS
       \/ /\ ~GetPresence(Det) /\ GetPresence(Det)'
          /\ IsHit(lastCall')
          /\ ~currentPresence /\ ~inGracePeriod
          /\ hitRun' >= CONFIRM_SCANS]_vars

\* both edges have been taken: arrival confirmed, then the grace period
\* expired on a miss
WitnessBothEdges ==
  /\ IsMiss(lastCall) /\ fired = 1
  /\ anchored /\ runFlips = 1 /\ ~GetPresence(Det)

\* C2: while inGracePeriod is true, getPresence() is true and
\* getStatusString() is "AVAILABLE", the value reported immediately before
\* the grace period began; the confirmed presence is not AWAY.
GraceKeepsReportedValue ==
  /\ [](inGracePeriod => /\ GetPresence(Det) = TRUE
                         /\ GetStatusString(Det) = "AVAILABLE"
                         /\ currentPresence)
  /\ [][inGracePeriod' => GetPresence(Det)' = GetPresence(Det)]_vars

WitnessInGrace == inGracePeriod /\ gracePeriodAttempts >= 2

\* C3: a hit during the grace period that followed three or more misses
\* from confirmed present: getPresence() was true all along and stays true,
\* the grace period is cancelled, and no status publish was made.
GraceAbsorption ==
  [][IsHit(lastCall') /\ inGracePeriod =>
       /\ anchored /\ runMisses >= CONFIRM_ABSENCE_SCANS
       /\ runPubs = 0 /\ runFlips = 0
       /\ GetPresence(Det) /\ GetPresence(Det)'
       /\ ~inGracePeriod' /\ currentPresence'
       /\ fired' = 0 /\ pubLog' = <<>> /\ messageQueue' = messageQueue]_vars

\* the hit that cancelled a grace period begun exactly at the third miss
WitnessGraceCancelled ==
  /\ IsHit(lastCall) /\ graceEvent = "cancelled"
  /\ anchored /\ ~inGracePeriod /\ currentPresence /\ fired = 0

\* C4: in a run of misses from confirmed present, getPresence() changes at
\* most once, the status-change side effect fires exactly when it changes,
\* and once a miss comes later than the grace duration after the third miss
\* getPresence() is false and the side effect has fired exactly once.
GraceExpiryOnce ==
  [][anchored' /\ runMisses' >= CONFIRM_ABSENCE_SCANS =>
       /\ runPubs' = runFlips' /\ runPubs' <= 1
       /\ GetPresence(Det)' = (runFlips' = 0)
       /\ (IsMiss(lastCall') /\ runMisses' > CONFIRM_ABSENCE_SCANS
             /\ now' - runGraceAt' > BLE_GRACE_PERIOD_MS
           => ~GetPresence(Det)' /\ runPubs' = 1)]_vars

\* misses went on after the expiry
WitnessExpiredThenMisses ==
  /\ anchored /\ runPubs = 1 /\ ~GetPresence(Det)
  /\ IsMiss(lastCall) /\ consecutiveMisses >= 2
  /\ now - runGraceAt > BLE_GRACE_PERIOD_MS

\* C5: a hit while confirmed present (no grace period) fires no
\* status-change side effect and leaves presence and grace state unchanged.
HitWhilePresentIdempotent ==
  [][IsHit(lastCall') /\ currentPresence /\ ~inGracePeriod =>
       /\ fired' = 0 /\ pubLog' = <<>> /\ messageQueue' = messageQueue
       /\ GetPresence(Det)' = GetPresence(Det)
       /\ currentPresence' /\ ~inGracePeriod']_vars

WitnessRepeatedHits ==
  /\ IsHit(lastCall) /\ currentPresence /\ ~inGracePeriod
  /\ consecutiveDetections >= 3 /\ fired = 0

\* ------------------------------------------------------------------------
\* Properties of the delivery queue
\* ------------------------------------------------------------------------
QueueIds(q) == [i \in 1..Len(q) |-> q[i].payload.id]

FromQueue(x) == x.src = "queue"

AllOk(log) == \A i \in 1..Len(log) : log[i].ok

\* C6: the number of queued messages stays within 0 .. QUEUE_SIZE after any
\* sequence of publish, enqueue and drain steps in any connectivity state.
QueueCountBounded == queueCount >= 0 /\ queueCount <= QUEUE_SIZE

\* with the broker reached, a direct publish failed and its message went
\* into a queue that was already full
WitnessFullQueueEnqueued ==
  /\ lastCall.op = "publishWithQueue" /\ lastResult /\ everConnected
  /\ Len(pubLog) = 1 /\ ~pubLog[1].ok
  /\ queueCount = QUEUE_SIZE
  /\ messageQueue[QUEUE_SIZE].payload.id = nextId - 1
  /\ messageQueue[1].payload.id > 1

\* C7: an enqueue into a full queue evicts exactly the oldest message and
\* keeps the others in order; with the transport down from the start, after
\* QUEUE_SIZE + 1 submissions the queue holds submissions 2 .. QUEUE_SIZE + 1
\* in order.
EvictsOldest ==
  /\ [](~everConnected /\ nextId = QUEUE_SIZE + 2
          => QueueIds(messageQueue) = [i \in 1..QUEUE_SIZE |-> i + 1])
  /\ [][lastCall'.op = "publishWithQueue" /\ queueCount = QUEUE_SIZE
          /\ messageQueue' # messageQueue
        => /\ queueCount' = QUEUE_SIZE
           /\ \E k \in 1..QUEUE_SIZE :
                /\ \A i \in 1..(QUEUE_SIZE - k) : messageQueue'[i] = messageQueue[i + k]
                /\ \A i \in (QUEUE_SIZE - k + 1)..QUEUE_SIZE :
                     /\ messageQueue'[i].payload.id >= nextId
                     /\ messageQueue'[i].retry_count = 0
                /\ k = Cardinality({i \in 1..QUEUE_SIZE : messageQueue'[i].payload.id >= nextId})
           /\ \A i \in 1..(QUEUE_SIZE - 1) :
                messageQueue'[i].payload.id < messageQueue'[i + 1].payload.id]_vars

\* transport down since start-up, QUEUE_SIZE + 1 messages submitted
WitnessNewestKept ==
  /\ ~everConnected /\ ~mqttReally /\ nextId = QUEUE_SIZE + 2
  /\ lastCall.op = "publishWithQueue" /\ lastResult
  /\ messageQueue[1].payload.id = 2
  /\ messageQueue[QUEUE_SIZE].payload.id = QUEUE_SIZE + 1

\* C8: every publish made from the queue is of the oldest message queued at
\* that moment; when every publish of a drain cycle succeeds, the messages
\* published are the front of the queue in queue order, they are removed,
\* and the rest of the queue is left as it was.
FifoDrain ==
  [][/\ \A i \in 1..Len(pubLog') :
          FromQueue(pubLog'[i]) => pubLog'[i].payload.id = pubLog'[i].oldest
     /\ lastCall'.op = "updateOfflineQueue" =>
          LET sent == SelectSeq(pubLog', FromQueue)
          IN AllOk(pubLog') =>
               /\ Len(sent) <= queueCount
               /\ \A i \in 1..Len(sent) : /\ sent[i].topic = messageQueue[i].topic
                                          /\ sent[i].payload = messageQueue[i].payload
               /\ messageQueue' = SubSeq(messageQueue, Len(sent) + 1, queueCount)]_vars

\* one drain cycle published three queued messages, all successfully
WitnessThreeDrained ==
  /\ lastCall.op = "updateOfflineQueue"
  /\ Len(pubLog) = DRAIN_PER_CYCLE /\ AllOk(pubLog)
  /\ \A i \in 1..Len(pubLog) : FromQueue(pubLog[i])
  /\ pubLog[2].payload.id = pubLog[1].payload.id + 1
  /\ pubLog[3].payload.id = pubLog[2].payload.id + 1

\* C9: a message that fails every drain attempt is removed after exactly
\* MAX_RETRY failures: no queued message has failed MAX_RETRY times or more.
DroppedAfterMaxRetry ==
  \A i \in 1..queueCount : messageQueue[i].retry_count < MAX_RETRY

\* C10: publishWithQueue with a payload over the size limit returns false
\* before any mqttClient.publish call and queues nothing: the queue and its
\* retry counters are unchanged.
OversizeRejected ==
  [][lastCall'.op = "publishWithQueue"
       /\ lastCall'.len > MQTT_MAX_PACKET_SIZE - PAYLOAD_MARGIN
     => /\ lastResult' = FALSE
        /\ pubLog' = <<>>
        /\ messageQueue' = messageQueue]_vars

\* an oversize payload was rejected while messages with failed attempts
\* were queued
WitnessOversizeRejected ==
  /\ lastCall.op = "publishWithQueue"
  /\ lastCall.len > MQTT_MAX_PACKET_SIZE - PAYLOAD_MARGIN
  /\ ~lastResult
  /\ queueCount >= 2 /\ messageQueue[1].retry_count >= 1

\* C11: publishWithQueue with a payload within the size limit returns true
\* whatever the transport state, and on return the message is published or
\* queued: without a successful direct publish of it (transport down, or
\* the direct publish failed) it is the newest entry of the queue.
PublishAlwaysAccepted ==
  [][lastCall'.op = "publishWithQueue"
       /\ lastCall'.len <= MQTT_MAX_PACKET_SIZE - PAYLOAD_MARGIN
     => LET sentDirect == \E i \in 1..Len(pubLog') :
                             /\ pubLog'[i].src = "direct" /\ pubLog'[i].ok
                             /\ pubLog'[i].payload.id = nextId
        IN /\ lastResult' = TRUE
           /\ sentDirect \/ \E i \in 1..Len(messageQueue') :
                              messageQueue'[i].payload.id = nextId
           /\ ~sentDirect => /\ Len(messageQueue') > 0
                             /\ messageQueue'[Len(messageQueue')].payload.id = nextId
                             /\ messageQueue'[Len(messageQueue')].retry_count = 0]_vars

\* a direct publish failed on a full queue and the message was queued
WitnessFailedThenQueued ==
  /\ lastCall.op = "publishWithQueue" /\ lastResult
  /\ Len(pubLog) = 1 /\ pubLog[1].src = "direct" /\ ~pubLog[1].ok
  /\ pubLog[1].oldest > 0
  /\ queueCount > 0 /\ messageQueue[queueCount].payload.id = pubLog[1].payload.id

\* the attempts a step made on queued messages, as positions in its log
QueueAttempts(log) == {i \in 1..Len(log) : FromQueue(log[i])}

\* C12 as stated: a run of the queue drain attempts at most one queued
\* message, the head.
OneAttemptPerDrain ==
  [][lastCall'.op = "updateOfflineQueue"
     => Cardinality(QueueAttempts(pubLog')) <= 1]_vars

\* C12, amended: one run of the queue drain attempts at most
\* min(DRAIN_PER_CYCLE, queueCount) queued messages and stops at the first
\* failed attempt, so at most DRAIN_PER_CYCLE queued messages are published
\* and at most one, the one whose attempt failed, has its retry counter
\* changed.
DrainAtMostThreePerRun ==
  [][lastCall'.op = "updateOfflineQueue"
     => LET att == QueueAttempts(pubLog')
            failed == {i \in att : ~pubLog'[i].ok}
            changed == {i \in 1..Len(messageQueue) :
                          \E j \in 1..Len(messageQueue') :
                             /\ messageQueue'[j].payload.id = messageQueue[i].payload.id
                             /\ messageQueue'[j].retry_count # messageQueue[i].retry_count}
        IN /\ Cardinality(att) <= Min(DRAIN_PER_CYCLE, queueCount)
           /\ Cardinality(failed) <= 1
           /\ \A i \in failed : \A j \in att : j <= i
           /\ \A i \in changed : \E k \in failed :
                 pubLog'[k].payload.id = messageQueue[i].payload.id]_vars

\* a drain run published two queued messages and failed on the third,
\* which stays queued with its retry counter raised
WitnessTwoSentThirdFailed ==
  /\ lastCall.op = "updateOfflineQueue"
  /\ \E i, j, k \in QueueAttempts(pubLog) :
        /\ i < j /\ j < k
        /\ pubLog[i].ok /\ pubLog[j].ok /\ ~pubLog[k].ok
        /\ queueCount > 0
        /\ messageQueue[1].payload.id = pubLog[k].payload.id
        /\ messageQueue[1].retry_count >= 1

\* C14: a message is never published successfully while a message
\* submitted before it is still waiting in the queue.
NoOvertaking ==
  [][\A i \in 1..Len(pubLog') :
        pubLog'[i].ok => \/ pubLog'[i].oldest = 0
                         \/ pubLog'[i].oldest >= pubLog'[i].payload.id]_vars

\* the message with this id was published successfully in the step
PublishedOk(log, id) ==
  \E k \in 1..Len(log) : log[k].ok /\ log[k].payload.id = id

\* the queued messages that are no longer queued after the step
Gone(q, q2) ==
  {i \in 1..Len(q) : \A j \in 1..Len(q2) : q2[j].payload.id # q[i].payload.id}

\* C15: an accepted response-class message is published successfully at
\* least once; the queue is its only store, so it stays queued until a step
\* publishes it successfully.
ResponseKeptUntilPublished ==
  [][\A i \in Gone(messageQueue, messageQueue') :
        messageQueue[i].is_response
        => PublishedOk(pubLog', messageQueue[i].payload.id)]_vars

\* C16: a response-class message is never published with the retained flag
\* set, neither directly nor from the queue.
ResponseNeverRetained ==
  \A i \in 1..Len(pubLog) : pubLog[i].isResponse => ~pubLog[i].retained

\* a button response was published directly while older messages were
\* still queued
WitnessResponsePublished ==
  /\ lastCall.op = "publishWithQueue" /\ lastCall.isResponse /\ lastResult
  /\ Len(pubLog) > 0 /\ pubLog[1].src = "direct" /\ pubLog[1].ok
  /\ pubLog[1].isResponse /\ pubLog[1].topic = TOPIC_RESPONSES
  /\ queueCount > 0

\* C19: the queue operations are not re-entered during a drain, so every
\* message a drain run removes from the queue is one that run has just
\* published or one whose attempt failed (dropped for its retries); no
\* unsent message is removed.
DrainRemovesOnlyAttempted ==
  [][lastCall'.op = "updateOfflineQueue"
     => \A i \in Gone(messageQueue, messageQueue') :
           \E k \in QueueAttempts(pubLog') :
              pubLog'[k].payload.id = messageQueue[i].payload.id]_vars

\* C17 as stated: from the initial state two scans that both return a hit
\* take the mode through VERIFYING to MONITORING and make getStatusString()
\* return "AVAILABLE".
TwoHitsReachMonitoring ==
  scanLog = <<TRUE, TRUE>>
  => currentMode = "MONITORING" /\ GetStatusString(Det) = "AVAILABLE"

\* C17, amended: from the initial state (SEARCHING, "AWAY") one hit changes
\* nothing, the second hit takes the mode SEARCHING -> VERIFYING and makes
\* getStatusString() return "AVAILABLE", and the mode becomes MONITORING
\* only at the third hit, made more than PRESENCE_CONFIRM_TIME later.
TwoHitsVerifyingThirdMonitoring ==
  /\ scanLog = <<>> => currentMode = "SEARCHING" /\ GetStatusString(Det) = "AWAY"
  /\ scanLog = <<TRUE>> => currentMode = "SEARCHING" /\ GetStatusString(Det) = "AWAY"
  /\ scanLog = <<TRUE, TRUE>>
     => currentMode = "VERIFYING" /\ GetStatusString(Det) = "AVAILABLE"
  /\ scanLog = <<TRUE, TRUE, TRUE>>
     => /\ currentMode = "MONITORING" /\ GetStatusString(Det) = "AVAILABLE"
        /\ modeChangeTime = lastScanTime
        /\ lastScanTime > PRESENCE_CONFIRM_TIME

\* three scans were made, all hits, and the mode is MONITORING
WitnessThreeHitsMonitoring ==
  /\ lastCall.op = "update" /\ lastCall.found
  /\ scanLog = <<TRUE, TRUE, TRUE>>
  /\ currentMode = "MONITORING"
  /\ GetPresence(Det)

IsButton(c) == c.op \in {"handleAcknowledgeButton", "handleBusyButton"}

\* C18: a button handler hands a response to publishWithQueue only if
\* getPresence() is true when the press is handled, the grace period
\* included; when it is false nothing is published or queued and the
\* consultation on display is kept.
ResponseOnlyWhenPresent ==
  [][IsButton(lastCall')
     => /\ lastCall'.isResponse => GetPresence(Det)
        /\ ~GetPresence(Det) => /\ ~lastCall'.isResponse
                                /\ pubLog' = <<>>
                                /\ messageQueue' = messageQueue
                                /\ UNCHANGED msgVars]_vars

\* a response was handed to the publisher during the grace period
WitnessResponseInGrace ==
  /\ IsButton(lastCall) /\ lastCall.isResponse /\ lastResult
  /\ inGracePeriod /\ GetPresence(Det)
  /\ ~messageDisplayed /\ g_receivedConsultationId = ""

\* C13: in a pass of loop() in which the presence status changes, the
\* publish of the new status is attempted before any queued message is
\* drained in that pass.
StatusBeforeBacklog ==
  [][lastCall'.op = "loop" /\ fired' > 0
     => \A i \in QueueAttempts(pubLog') :
           \E j \in 1..(i - 1) :
              /\ pubLog'[j].src = "direct"
              /\ pubLog'[j].payload.kind = "status"
              /\ pubLog'[j].payload.present = GetPresence(Det)']_vars

\* C20: once connectivity is re-established and stays up, publishes
\* succeed and nothing new is enqueued, every queued message is eventually
\* published and the queue becomes empty.
BacklogEventuallyDrained ==
  /\ reliable ~> (reliable /\ queueCount = 0)
  /\ [][reliable =>
          \A i \in Gone(messageQueue, messageQueue') :
             PublishedOk(pubLog', messageQueue[i].payload.id)]_vars

\* a backlog of more than one drain run has been published and the queue
\* is empty
WitnessBacklogDrained ==
  /\ reliable /\ lastCall.op = "slowSection"
  /\ queueCount = 0
  /\ Cardinality(QueueAttempts(pubLog)) >= 1
  /\ AllOk(pubLog)
  /\ \E i \in QueueAttempts(pubLog) : pubLog[i].payload.id > DRAIN_PER_CYCLE

\* C21: whenever WiFi is up and the broker accepts connections, a device
\* whose MQTT connection is down re-establishes it, no matter how many
\* consecutive attempts failed before: a pass of checkMQTTConnection() made
\* with WiFi up, the client disconnected, the reconnect delay elapsed and
\* the broker accepting connects to the broker.
ReconnectsWheneverBrokerAccepts ==
  [][/\ lastCall'.op = "checkMQTTConnection"
     /\ wifiConnected /\ ~mqttReally /\ brokerAccepts'
     /\ now' - lastMqttReconnectAttempt >= mqttReconnectDelay
     => lastResult']_vars

SentTexts == {"ACKNOWLEDGED", "MARKED BUSY"}

\* C22: after a button press "QUEUED" is shown exactly when the response
\* was placed in the offline queue, and "ACKNOWLEDGED" / "MARKED BUSY"
\* exactly when it was published directly on the transport.
ConfirmationMatchesOutcome ==
  [][IsButton(lastCall')
     => LET queued == \E i \in 1..Len(messageQueue') :
                         messageQueue'[i].payload.id = nextId
            direct == \E k \in 1..Len(pubLog') :
                         /\ pubLog'[k].src = "direct" /\ pubLog'[k].ok
                         /\ pubLog'[k].payload.id = nextId
        IN /\ (lastCall'.shown = "QUEUED") <=> queued
           /\ (lastCall'.shown \in SentTexts) <=> direct]_vars

\* C23: the consultation queue loses no request: an accepted request that
\* was not cancelled is displayed once the requests ahead of it have been
\* dismissed by button press, without any further request arriving, also
\* after another queued request was cancelled. So a button press that
\* dismisses the request on display leaves the screen idle only if no
\* accepted and uncancelled request is waiting.
NextRequestShownAfterDismissal ==
  [][IsButton(lastCall') /\ lastCall'.isResponse /\ ~messageDisplayed'
     => \A i \in Slots : ~SlotAt(consultationQueue', i).isValid]_vars

\* the last two scans made both returned the given result
LastTwoScans(log, result) ==
  Len(log) >= 2 /\ log[Len(log)] = result /\ log[Len(log) - 1] = result

\* C24: the scanner mode changes only by SEARCHING -> VERIFYING (and then
\* the last two scans were both hits), MONITORING -> VERIFYING (and then the
\* last two scans were both misses), VERIFYING -> MONITORING and
\* VERIFYING -> SEARCHING; never directly between SEARCHING and MONITORING.
ModeChangesOnlyByFourTransitions ==
  [][currentMode' # currentMode
     => \/ /\ currentMode = "SEARCHING" /\ currentMode' = "VERIFYING"
           /\ LastTwoScans(scanLog', TRUE)
        \/ /\ currentMode = "MONITORING" /\ currentMode' = "VERIFYING"
           /\ LastTwoScans(scanLog', FALSE)
        \/ currentMode = "VERIFYING" /\ currentMode' = "MONITORING"
        \/ currentMode = "VERIFYING" /\ currentMode' = "SEARCHING"]_vars

\* all four transitions were taken: two hits, a hit (MONITORING), two
\* misses (VERIFYING again) and a miss (SEARCHING)
WitnessAllFourTransitions ==
  /\ lastCall.op = "update"
  /\ modeLog = <<"SEARCHING", "VERIFYING", "MONITORING", "MONITORING",
                 "VERIFYING", "SEARCHING">>

\* the scan at which the scanner last entered VERIFYING, the scan being
\* made now (number n) excluded
VerifyingEntry(log, n) ==
  CHOOSE k \in 1..(n - 1) :
    /\ log[k] = "VERIFYING"
    /\ k = 1 \/ log[k - 1] # "VERIFYING"
    /\ \A j \in k..(n - 1) : log[j] = "VERIFYING"

\* the hits and the misses among the scans k+1 .. n
HitsIn(log, k, n) == Cardinality({i \in (k + 1)..n : log[i]})
MissesIn(log, k, n) == Cardinality({i \in (k + 1)..n : ~log[i]})

IsWeakDetection(c) == c.op = "checkBeacon" /\ c.found /\ c.rssi \in RssiWeak

\* C26: a detection whose RSSI is below the floor is treated by checkBeacon
\* exactly like a miss: it leaves the consecutive-hit counter where a miss
\* leaves it (at 0), it counts as one more consecutive miss, and it does
\* not cancel a grace period.
WeakDetectionTreatedAsMiss ==
  [][IsWeakDetection(lastCall')
     => LET m == CheckBeaconMiss(Det, now)
        IN /\ consecutiveDetections' = m.consecutiveDetections
           /\ consecutiveMisses' = m.consecutiveMisses
           /\ GetPresence(Det') = GetPresence(m)
           /\ graceEvent' # "cancelled"]_vars

\* getPresence() turns false while a grace period is running
AwayDecidedInGrace == inGracePeriod /\ GetPresence(Det) /\ ~GetPresence(Det)'

NewlyQueued(q, id0) ==
  {i \in 1..Len(q) : q[i].payload.kind = "status" /\ q[i].payload.id >= id0}

\* the status messages handed to publishWithQueue in the step: those it
\* tried to publish and those it queued
SubmittedStatus(log, q, id0) ==
  {log[k].payload.id : k \in {n \in 1..Len(log) : /\ log[n].src = "direct"
                                                 /\ log[n].payload.kind = "status"}}
  \cup {q[i].payload.id : i \in NewlyQueued(q, id0)}

\* C28 as stated: a presence status change submits exactly one status
\* message to publishWithQueue, and with the transport down each change
\* adds exactly one queue entry.
OneSubmissionPerChange ==
  [][fired' = 1
     => /\ Cardinality(SubmittedStatus(pubLog', messageQueue', nextId)) = 1
        /\ ~mqttReally => Cardinality(NewlyQueued(messageQueue', nextId)) = 1]_vars

\* C28, amended: a presence status change submits the status message to
\* publishWithQueue twice, on the status topic and then on the legacy
\* status topic, and with the transport down each change adds exactly two
\* queue entries, the status-topic one ahead of the legacy-topic one.
TwoSubmissionsPerChange ==
  [][fired' = 1
     => /\ Cardinality(SubmittedStatus(pubLog', messageQueue', nextId)) = 2
        /\ ~mqttReally
           => LET n == Len(messageQueue')
              IN /\ NewlyQueued(messageQueue', nextId) = {n - 1, n}
                 /\ messageQueue'[n - 1].topic = TOPIC_STATUS
                 /\ messageQueue'[n].topic = TOPIC_LEGACY
                 /\ StatusBody(Det') = [messageQueue'[n].payload EXCEPT !.id = 0]
                 /\ StatusBody(Det') = [messageQueue'[n - 1].payload EXCEPT !.id = 0]
                 /\ pubLog' = <<>>]_vars

\* the change to AWAY at the end of a grace period was queued with the
\* transport down, after the change to AVAILABLE had been published twice
WitnessChangeQueuedTwice ==
  /\ IsMiss(lastCall) /\ fired = 1 /\ graceEvent = "expired"
  /\ ~mqttReally /\ everConnected
  /\ Len(messageQueue) = 2 /\ pubLog = <<>>
  /\ messageQueue[1].topic = TOPIC_STATUS /\ messageQueue[2].topic = TOPIC_LEGACY
  /\ \A i \in 1..2 : /\ messageQueue[i].payload.kind = "status"
                     /\ messageQueue[i].payload.status = "AWAY"

\* the status messages handed to publishWithQueue in the step
StatusMessagesOfStep(log, q, id0) ==
  {log[k].payload : k \in {n \in 1..Len(log) : /\ log[n].src = "direct"
                                              /\ log[n].payload.kind = "status"}}
  \cup {q[i].payload : i \in NewlyQueued(q, id0)}

\* C29: the status message published at a presence edge carries the new
\* value: present = false, "AWAY", in_grace_period = false at the expiry of
\* a grace period, and present = true, "AVAILABLE", in_grace_period = false
\* at the arrival.
EdgeMessageCarriesNewValue ==
  [][fired' = 1
     => /\ GetPresence(Det)' # GetPresence(Det)
        /\ StatusMessagesOfStep(pubLog', messageQueue', nextId) # {}
        /\ \A m \in StatusMessagesOfStep(pubLog', messageQueue', nextId) :
              /\ m.present = GetPresence(Det)'
              /\ m.status = GetStatusString(Det)'
              /\ ~m.grace
              /\ IsMiss(lastCall') => graceEvent' = "expired" /\ ~m.present /\ m.status = "AWAY"
              /\ IsHit(lastCall') => m.present /\ m.status = "AVAILABLE"]_vars

\* the expiry of a grace period was published with the broker connected,
\* the arrival having been queued before
WitnessExpiryPublished ==
  /\ IsMiss(lastCall) /\ fired = 1 /\ graceEvent = "expired"
  /\ Len(messageQueue) = 0
  /\ Len(pubLog) >= 2
  /\ pubLog[1].topic = TOPIC_STATUS /\ pubLog[1].ok /\ pubLog[1].payload.status = "AWAY"
  /\ pubLog[2].topic = TOPIC_LEGACY /\ pubLog[2].ok /\ ~pubLog[2].payload.present
  /\ now - gracePeriodStartTime >= BLE_GRACE_PERIOD_MS

\* C30: in the main loop, while presence is in a grace period a scan is
\* made at every tick at which at least BLE_RECONNECT_ATTEMPT_INTERVAL
\* (5000 ms) has elapsed since the last scan, whatever the scanner mode;
\* outside a grace period no scan is made before the interval of the active
\* mode has elapsed since the last scan.
ScanCadenceFollowsInterval ==
  [][lastCall'.op = "tick"
     => LET scanned == Len(scanLog') = Len(scanLog) + 1
            elapsed == now' - lastScanTime
        IN /\ inGracePeriod /\ elapsed >= BLE_RECONNECT_ATTEMPT_INTERVAL => scanned
           /\ ~inGracePeriod /\ scanned => elapsed >= GetCurrentScanInterval(Scan, Det)]_vars

\* the successful publishes a step made on the status topic
StatusDelivered(log) ==
  SelectSeq(log, LAMBDA x : x.ok /\ x.topic = TOPIC_STATUS /\ x.payload.kind = "status")

\* C31: when the device is connected and the offline queue is empty after
\* a step that published on the status topic, the last status payload
\* published successfully carries the current value of getPresence().
LastStatusDeliveredIsCurrent ==
  LET sent == StatusDelivered(pubLog)
  IN wifiConnected /\ mqttReally /\ mqttConnected /\ queueCount = 0 /\ Len(sent) > 0
       => sent[Len(sent)].payload.present = GetPresence(Det)

DepartureScans == CONFIRM_ABSENCE_SCANS + BLE_RECONNECT_MAX_ATTEMPTS

\* C32: once a hit has left the detector confirmed present, a run of
\* CONFIRM_ABSENCE_SCANS + BLE_RECONNECT_MAX_ATTEMPTS = 15 misses with no hit
\* in between leaves getPresence() false, whatever time passes between the
\* scans.
DepartureWithinFifteenMisses ==
  anchored /\ runMisses >= DepartureScans => ~GetPresence(Det)

\* the fifteenth miss ended the grace period with no time at all having
\* passed since it began
WitnessFifteenthMissEndsGrace ==
  /\ anchored /\ runMisses = DepartureScans
  /\ IsMiss(lastCall) /\ graceEvent = "expired"
  /\ now = runGraceAt
  /\ ~GetPresence(Det)

\* C33: between two calls of update(), the scanner being the only caller of
\* checkBeacon, the mode MONITORING goes with getPresence() true and no
\* grace period.
MonitoringMeansPresent ==
  currentMode = "MONITORING" => GetPresence(Det) /\ ~inGracePeriod

\* MONITORING was entered from VERIFYING by a detection that cancelled a
\* grace period begun during the verification
WitnessMonitoringAfterGrace ==
  /\ currentMode = "MONITORING" /\ lastCall.op = "update" /\ lastCall.found
  /\ graceEvent = "cancelled"
  /\ Len(modeLog) >= 2 /\ modeLog[Len(modeLog) - 1] = "VERIFYING"
  /\ GetPresence(Det) /\ ~inGracePeriod

\* C34: between two passes of loop(), the mode SEARCHING goes with
\* presence AWAY or with a grace period.
SearchingMeansAwayOrGrace ==
  currentMode = "SEARCHING" => ~GetPresence(Det) \/ inGracePeriod

\* the publishes of a step that succeeded
Delivered(log) == SelectSeq(log, LAMBDA x : x.ok)

\* C35: no message is published successfully twice.  Within one handler no
\* two successful publishes are of the same message; a message published
\* successfully, directly or from the queue, is not in the queue when the
\* handler returns; a direct publish is of a newly submitted message, a
\* publish from the queue of a message that was queued or newly submitted,
\* and only newly submitted messages enter the queue: so a message once
\* published can never be published again.
PublishedAtMostOnce ==
  [][LET sent == Delivered(pubLog')
         before == {messageQueue[i].payload.id : i \in 1..Len(messageQueue)}
         after == {messageQueue'[i].payload.id : i \in 1..Len(messageQueue')}
     IN /\ \A i, j \in 1..Len(sent) :
              i # j => sent[i].payload.id # sent[j].payload.id
        /\ \A i \in 1..Len(sent) :
              /\ sent[i].payload.id \notin after
              /\ sent[i].src = "direct" => sent[i].payload.id >= nextId
              /\ sent[i].src = "queue" =>
                   sent[i].payload.id \in before \/ sent[i].payload.id >= nextId
        /\ \A n \in after : n \in before \/ n >= nextId]_vars

\* a drain published the head of the queue, the answer to a PING_REQUEST
\* dispatched right after that publish failed and was queued, and the
\* published message is gone from the queue
WitnessDrainedWhilePongQueued ==
  /\ lastCall.op = "updateOfflineQueue"
  /\ Len(pubLog) >= 2
  /\ pubLog[1].src = "queue" /\ pubLog[1].ok
  /\ pubLog[2].src = "direct" /\ ~pubLog[2].ok /\ pubLog[2].topic = TOPIC_PONG
  /\ \E i \in 1..queueCount : messageQueue[i].payload.id = pubLog[2].payload.id
  /\ \A i \in 1..queueCount : messageQueue[i].payload.id # pubLog[1].payload.id

\* C36: between operations every queued message has a retry_count in
\* 0 .. MAX_RETRY and every message behind the head has retry_count 0; a
\* message that publishWithQueue adds to the queue has retry_count 0.
RetryCountsWellFormed ==
  /\ [](\A i \in 1..queueCount :
          /\ messageQueue[i].retry_count \in 0..MAX_RETRY
          /\ i > 1 => messageQueue[i].retry_count = 0)
  /\ [][lastCall'.op = "publishWithQueue" =>
          \A i \in 1..queueCount' :
             messageQueue'[i].payload.id >= nextId => messageQueue'[i].retry_count = 0]_vars

\* the head has failed MAX_RETRY times and is still queued, with untried
\* messages behind it
WitnessHeadAtMaxRetry ==
  /\ queueCount >= 2
  /\ messageQueue[1].retry_count = MAX_RETRY
  /\ lastCall.op = "updateOfflineQueue"
  /\ Len(pubLog) = 1 /\ ~pubLog[1].ok

\* C37: a message that publishWithQueue accepts and queues is stored with
\* the whole payload it was called with.
QueuedPayloadComplete ==
  [][lastCall'.op = "publishWithQueue" /\ lastResult' =>
       \A i \in 1..queueCount' :
          messageQueue'[i].payload.id = nextId =>
            messageQueue'[i].payload.len = lastCall'.len]_vars

\* C38: an updateOfflineQueue() call made while WiFi or the broker
\* connection is down publishes nothing and leaves the queue, its order and
\* its retry counts as they were; and whatever the handler, a publish from
\* the queue is only made with WiFi up.
DrainOnlyWhenConnected ==
  [][/\ lastCall'.op = "updateOfflineQueue" /\ (~wifiConnected \/ ~mqttReally) =>
          /\ pubLog' = <<>>
          /\ messageQueue' = messageQueue
     /\ (\E i \in 1..Len(pubLog') : FromQueue(pubLog'[i])) => wifiConnected]_vars

\* updateOfflineQueue() ran with messages queued and the broker connected
\* but WiFi marked down, and did nothing
WitnessDrainSkippedWiFiDown ==
  /\ lastCall.op = "updateOfflineQueue"
  /\ ~wifiConnected /\ mqttReally
  /\ queueCount > 0
  /\ pubLog = <<>>

\* ------------------------------------------------------------------------
\* FIXED variant (faculty_desk_unit_FIXED.ino): publishReliable and the
\* queue of three ReliableMessage slots behind it.  The variant keeps the
\* names messageQueue, queueCount, wifiConnected and mqttConnected; its
\* mqttClient.connected() is mqttReally here.  Its handlers do not touch
\* the connection flags; the functions that do (checkWiFiConnection,
\* connectMQTT) are called from its loop() and are not part of the file.
\* ------------------------------------------------------------------------
\* queueMessageReliable(): a full queue gives up messageQueue[0]
QueueMessageReliable(q, topic, payload, isResponse) ==
  LET kept == IF Len(q) >= RELIABLE_QUEUE_SIZE
              THEN SubSeq(q, 2, RELIABLE_QUEUE_SIZE)
              ELSE q
  IN Append(kept, [topic |-> topic, payload |-> StorePayload(payload),
                   retry_count |-> 0, is_response |-> isResponse])

\* a failed mqttClient.publish: the client is still connected, or it is not
AfterFailedReliable(e) == {e, [e EXCEPT !.really = FALSE]}

\* (mutant) the comparison of the original firmware
ReliableRetriesUsedUp_Late(m) == m.retry_count > RELIABLE_MAX_ATTEMPTS

\* if (messageQueue[0].retry_count >= 3)
ReliableRetriesUsedUp(m) == m.retry_count >= RELIABLE_MAX_ATTEMPTS

\* processQueuedMessagesReliable(): one attempt on messageQueue[0]
ProcessQueuedMessagesReliable(e) ==
  IF ~e.really \/ Len(e.q) = 0
  THEN {[env |-> e, ret |-> FALSE]}
  ELSE LET head == e.q[1]
           sent == [e EXCEPT !.log = Append(@, LogEntry("queue", head.topic, head.payload,
                                                          head.is_response, FALSE, TRUE, e.q))]
           lost == [e EXCEPT !.log = Append(@, LogEntry("queue", head.topic, head.payload,
                                                          head.is_response, FALSE, FALSE, e.q))]
           Bump(e1) == [e1 EXCEPT !.q[1].retry_count = @ + 1]
           Drop(e1) == IF ReliableRetriesUsedUp(e1.q[1])
                       THEN [e1 EXCEPT !.q = Tail(@)]
                       ELSE e1
       IN {[env |-> [sent EXCEPT !.q = Tail(@)], ret |-> TRUE]}
          \cup
          {[env |-> Drop(e1), ret |-> FALSE] : e1 \in AfterFailedReliable(Bump(lost))}

\* updateReliableQueue(): systemOnline = wifiConnected && mqttConnected;
\* if (systemOnline) processQueuedMessagesReliable();
UpdateReliableQueue(e, wifi) ==
  IF wifi /\ e.mqttConnected
  THEN {o.env : o \in ProcessQueuedMessagesReliable(e)}
  ELSE {e}

\* the for loop of publishReliable(): attempts n .. RELIABLE_DIRECT_ATTEMPTS
\* of mqttClient.publish, which fails on a client that is not connected
RECURSIVE DirectAttempts(_, _, _, _, _)
DirectAttempts(e, n, topic, payload, isResponse) ==
  IF n > RELIABLE_DIRECT_ATTEMPTS
  THEN {[env |-> [e EXCEPT !.q = QueueMessageReliable(@, topic, payload, isResponse)],
         ret |-> TRUE]}
  ELSE LET sent == [e EXCEPT !.log = Append(@, LogEntry("direct", topic, payload,
                                                          isResponse, FALSE, TRUE, e.q))]
           lost == [e EXCEPT !.log = Append(@, LogEntry("direct", topic, payload,
                                                          isResponse, FALSE, FALSE, e.q))]
       IN (IF e.really THEN {[env |-> sent, ret |-> TRUE]} ELSE {})
          \cup
          UNION {DirectAttempts(e1, n + 1, topic, payload, isResponse)
                 : e1 \in IF e.really THEN AfterFailedReliable(lost) ELSE {lost}}

\* publishReliable()
PublishReliable(e, topic, payload, isResponse) ==
  IF e.really
  THEN DirectAttempts(e, 1, topic, payload, isResponse)
  ELSE {[env |-> [e EXCEPT !.q = QueueMessageReliable(@, topic, payload, isResponse)],
         ret |-> TRUE]}

\* handleAcknowledgeButtonReliable() / handleBusyButtonReliable(): the
\* response to a consultation request, which only arrives over an
\* established broker connection
ReliableResponse ==
  /\ everConnected
  /\ nextId <= MaxReliableIds
  /\ \E len \in PayloadLens :
       /\ \E o \in PublishReliable([Env EXCEPT !.nextId = @ + 1], TOPIC_RESPONSES,
                                   [ResponseBody(len) EXCEPT !.id = nextId], TRUE) :
             SetEnv(o.env) /\ lastResult' = o.ret
       /\ lastCall' = [NoCall EXCEPT !.op = "publishReliable", !.len = len,
                                     !.isResponse = TRUE]
  /\ fired' = 0 /\ graceEvent' = "none"
  /\ UNCHANGED <<detVars, now, wifiConnected, everConnected, offlineIds, runVars, deskVars>>

\* loop(): updateReliableQueue()
ReliableDrainStep ==
  /\ \E e1 \in UpdateReliableQueue(Env, wifiConnected) : SetEnv(e1)
  /\ lastCall' = [NoCall EXCEPT !.op = "updateReliableQueue"]
  /\ lastResult' = FALSE /\ fired' = 0 /\ graceEvent' = "none"
  /\ UNCHANGED <<detVars, now, wifiConnected, everConnected, offlineIds, runVars, deskVars>>

\* loop(): checkWiFiConnection(); if (wifiConnected && !mqttClient.connected())
\* connectMQTT(); and the links themselves: the flags and the client's state
\* take any values, the flag mqttConnected not necessarily the client's
ReliableLinkChange ==
  /\ \E w, c, r \in BOOLEAN :
       /\ <<w, c, r>> # <<wifiConnected, mqttConnected, mqttReally>>
       /\ wifiConnected' = w /\ mqttConnected' = c /\ mqttReally' = r
       /\ everConnected' = (everConnected \/ r)
  /\ lastCall' = NoCall
  /\ lastResult' = FALSE /\ pubLog' = <<>> /\ fired' = 0 /\ graceEvent' = "none"
  /\ UNCHANGED <<detVars, now, messageQueue, nextId, offlineIds, runVars, deskVars>>

NextReliable == ReliableResponse \/ ReliableDrainStep \/ ReliableLinkChange

SpecReliable == Init /\ [][NextReliable]_vars

\* C39: in the FIXED variant no queued message carries a retry_count above
\* 3 (the count reaches 3 only inside the call that drops the message); a
\* failed attempt on the head of the queue adds one to its count and drops
\* it when that was its third failure, and only then; and one
\* updateReliableQueue() call makes at most one publish attempt.
ReliableRetryCounting ==
  /\ [](\A i \in 1..queueCount : messageQueue[i].retry_count < RELIABLE_MAX_ATTEMPTS)
  /\ [][lastCall'.op = "updateReliableQueue" =>
          /\ Len(pubLog') <= 1
          /\ (Len(pubLog') = 1 /\ ~pubLog'[1].ok) =>
                IF messageQueue[1].retry_count = RELIABLE_MAX_ATTEMPTS - 1
                THEN messageQueue' = Tail(messageQueue)
                ELSE messageQueue' = [messageQueue EXCEPT ![1].retry_count = @ + 1]]_vars

\* updateReliableQueue() made its one attempt, it failed, and the message
\* is gone from the queue while another one still waits
WitnessThirdFailureDrops ==
  /\ lastCall.op = "updateReliableQueue"
  /\ Len(pubLog) = 1 /\ ~pubLog[1].ok
  /\ queueCount > 0
  /\ \A i \in 1..queueCount : messageQueue[i].payload.id # pubLog[1].payload.id

\* ------------------------------------------------------------------------
\* WiFi reconnection with backoff
\* ------------------------------------------------------------------------
WiFi == [wifiConnected |-> wifiConnected, mqttConnected |-> mqttConnected,
         count |-> wifiRetryCount, lastAttempt |-> lastWifiReconnectAttempt,
         delay |-> wifiReconnectDelay, stable |-> wifiConnectionStable,
         stableTime |-> wifiStableTime, millis |-> now]

\* whether a * m is a value of int (32 bits)
MulFits(a, m) == a <= INT_MAX \div m /\ a >= INT_MIN \div m

\* the low 32 bits of a * 2^k, read as an int (0 < k <= 4)
ShiftWrapped(a, k) ==
  LET half == 1073741824 \div Pow2(k - 1)
  IN (a % half) * Pow2(k) + (IF (a \div half) % 2 = 1 THEN INT_MIN ELSE 0)

\* wifiReconnectDelay * (1 << k) in int arithmetic.  A product outside int
\* is undefined behaviour: the low 32 bits the multiply instruction leaves,
\* or any other value, for which the two extremes stand
BackoffProduct(a, k) ==
  IF MulFits(a, Pow2(k))
  THEN {a * Pow2(k)}
  ELSE {ShiftWrapped(a, k), INT_MAX, INT_MIN}

\* min(wifiRetryCount - 1, 4)
BackoffShift(count) == Min(count - 1, 4)

\* a < b once both are converted to unsigned long, for operands within int:
\* a negative operand is 2^32 more
UnsignedLess(a, b) ==
  IF b < 0 THEN a >= 0 \/ a < b
  ELSE a >= 0 /\ a < b

\* connectWiFiWithBackoff() called at w.millis; the attempt, if one is made,
\* takes dur ms and connects or not
ConnectWiFiWithBackoff(w, connects, dur) ==
  IF w.count >= maxWifiRetries
  THEN {[w EXCEPT !.wifiConnected = FALSE]}
  ELSE IF connects
  THEN {[w EXCEPT !.wifiConnected = TRUE, !.count = 0, !.stableTime = w.millis + dur,
                  !.stable = FALSE, !.millis = @ + dur]}
  ELSE {[w EXCEPT !.wifiConnected = FALSE, !.count = @ + 1,
                  !.lastAttempt = w.millis + dur, !.delay = d, !.millis = @ + dur]
        : d \in BackoffProduct(w.delay, BackoffShift(w.count + 1))}

\* the time an attempt takes: delay(500), then the wait for the connection,
\* here always run to its timeout
AttemptDurations(w) == {500 + WIFI_CONNECT_TIMEOUT + w.count * 5000}

\* checkWiFiConnection() called at w.millis with WiFi.status() ==
\* WL_CONNECTED or not.  wifiStableTime = millis() reads the clock again, lag
\* ms after the function read it into `now`
CheckWiFiConnectionAt(w, status, connects, dur, lag) ==
  IF ~status
  THEN LET w1 == IF w.wifiConnected
                 THEN [w EXCEPT !.wifiConnected = FALSE, !.stable = FALSE,
                                !.mqttConnected = FALSE]
                 ELSE w
       IN IF UnsignedLess(w1.delay, w1.millis - w1.lastAttempt)
          THEN ConnectWiFiWithBackoff(w1, connects, dur)
          ELSE {w1}
  ELSE LET w1 == IF ~w.wifiConnected
                 THEN [w EXCEPT !.wifiConnected = TRUE, !.stableTime = w.millis + lag,
                                !.stable = FALSE]
                 ELSE w
       IN {IF ~w1.stable /\ UnsignedLess(WIFI_STABLE_MS, w.millis - w1.stableTime)
           THEN [w1 EXCEPT !.stable = TRUE, !.count = 0, !.delay = WIFI_RECONNECT_BASE]
           ELSE w1}

\* loop(): checkWiFiConnection() at uptime t
CheckWiFiPass(t) ==
  /\ \E status, connects \in BOOLEAN, lag \in {0, 1} :
       \E dur \in AttemptDurations(WiFi) :
         \E w \in CheckWiFiConnectionAt([WiFi EXCEPT !.millis = t], status, connects,
                                         dur, lag) :
           /\ wifiConnected' = w.wifiConnected
           /\ mqttConnected' = w.mqttConnected
           /\ wifiRetryCount' = w.count
           /\ lastWifiReconnectAttempt' = w.lastAttempt
           /\ wifiReconnectDelay' = w.delay
           /\ wifiConnectionStable' = w.stable
           /\ wifiStableTime' = w.stableTime
           /\ now' = w.millis
  /\ lastCall' = [NoCall EXCEPT !.op = "checkWiFiConnection"]
  /\ lastResult' = FALSE /\ pubLog' = <<>> /\ fired' = 0 /\ graceEvent' = "none"
  /\ UNCHANGED <<detVars, messageQueue, mqttReally, idVars, runVars, scanVars,
                 lastSlowOperations, msgVars, reliable, mqttRetryCount,
                 lastMqttReconnectAttempt, mqttReconnectDelay, brokerAccepts>>

\* the next pass follows within a minute
CheckWiFiSoon ==
  \E dt \in BackoffSteps : now + dt <= MaxBackoffNow /\ CheckWiFiPass(now + dt)

\* WiFi stays down and nothing else happens until the pass that finds the
\* backoff delay elapsed
CheckWiFiAtExpiry ==
  /\ ~wifiConnected
  /\ wifiReconnectDelay >= 0
  /\ wifiReconnectDelay < MaxBackoffUptime - lastWifiReconnectAttempt
  /\ lastWifiReconnectAttempt + wifiReconnectDelay + 1 > now
  /\ CheckWiFiPass(lastWifiReconnectAttempt + wifiReconnectDelay + 1)

NextWiFiBackoff == CheckWiFiSoon \/ CheckWiFiAtExpiry

SpecWiFiBackoff == Init /\ [][NextWiFiBackoff]_vars

\* C40: wifiReconnectDelay stays within 5000 .. 16 * 5000 ms whatever the
\* number of failed connection attempts in a row, and the product computed
\* for it after a failed attempt is always a value of int.
WifiBackoffCapped ==
  /\ [](/\ wifiReconnectDelay >= WIFI_RECONNECT_BASE
        /\ wifiReconnectDelay <= WIFI_BACKOFF_CAP_FACTOR * WIFI_RECONNECT_BASE)
  /\ [][wifiRetryCount' = wifiRetryCount + 1 =>
          MulFits(wifiReconnectDelay, Pow2(BackoffShift(wifiRetryCount')))]_vars

====
